---- MODULE Spec2Model ----
(***************************************************************************)
(* diffH: the spatial reconciliation engine.                               *)
(*                                                                         *)
(*   Zone Resolver            src/src/core/data_loader.py                  *)
(*   Transform Dispatcher     src/src/core/coordinate_transform.py,        *)
(*                            src/src/core/cuda_transform.py               *)
(*   Elevation Lookup Client  src/src/core/geoportal_client.py             *)
(*   Pairing Engine           src/src/core/processor.py                    *)
(*   Grid Coverage Selector   src/src/core/grid_generator.py               *)
(*                                                                         *)
(* Each component is a state machine of its own over its own variables;    *)
(* a component's specification holds the other components' variables at    *)
(* their idle values.                                                      *)
(***************************************************************************)
EXTENDS Integers, Sequences, FiniteSets, TLC

VARIABLES
    \* get_source_epsg: the argument and the outcome of one call
    easting_coordinate, source_epsg, epsg_pc,
    \* assign_geodetic_roles: the DataFrame and the call's position
    df, roles_pc,
    \* process_data, pairing part: the arguments, the rows built so far and
    \* the call's position
    input_df, comparison_df, max_distance, comparison_tolerance, results, proc_pc,
    \* transform_coordinates_parallel: the DataFrame; the environment (which
    \* CUDA path works, the zones whose transformer cannot be constructed,
    \* the point whose reprojection raises); the call's position, its result
    \* list and the number of Transformer.from_crs calls per zone
    points, cuda_path, crs_error, bad_point, disp_pc, disp_results, constructed,
    \* the optimised CUDA path: the zone groups and the batch cursor
    zone_groups, cursor,
    \* the CPU path: the chunks a worker process holds, the result queue (the
    \* chunks done with their outcomes, in the order they were finished), and
    \* the chunks the imap iterator has yielded
    running, done, yielded,
    \* get_geoportal_heights_concurrent: the argument, the call's position,
    \* the merged map and the points of the straggler pass; then the
    \* geoportal_h column process_data reads out of the returned map
    transformed_points, lookup_pc, all_heights, missing_points, geoportal_h,
    \* fetch_height_batch, one call per batch (call 0 is the straggler
    \* pass): the call's position, the point strings of its URL, its attempt
    \* number, the outcome of its last request, the map it returned, and
    \* whether every request of the call so far ended in a failure or an
    \* empty body
    fetch_pc, point_strings, attempt, response, batch_heights, only_failures,
    \* the first-pass calls in the order they ended (a record the code does
    \* not keep; it lets a property speak of the completion order)
    finished,
    \* the readers of the returned map: the h column of input_df, the
    \* diff_h_geoportal column process_data builds next to geoportal_h, and
    \* the h column process_geoportal_only_data builds
    input_h, diff_h_geoportal, only_h,
    \* znajdz_punkty_dla_siatki: the arguments, the centres of the lattice,
    \* the number of centres processed, the claimed rows of punkty_np, the
    \* rows chosen so far and the call's position
    punkty_kandydaci, obszar_wielokat, odleglosc_siatki, lista_srodkow,
    srodek_nr, odwiedzone_indeksy_w_np, wyniki_siatki, grid_pc,
    \* main around the call of the selector: the table process_data returned
    \* and the tolerance of the elevation service it was given
    results_df, geoportal_tolerance,
    \* the configuration file, what load_config returned to main, and two
    \* records the code does not keep: the settings last saved for each mode
    \* and the mode and the file of the latest call of save_config_for_mode
    config_file, all_configs, last_saved, latest_save

zoneVars == <<easting_coordinate, source_epsg, epsg_pc>>
roleVars == <<df, roles_pc>>
pairVars ==
    <<input_df, comparison_df, max_distance, comparison_tolerance, results, proc_pc>>
dispVars ==
    <<points, cuda_path, crs_error, bad_point, disp_pc, disp_results, constructed,
      zone_groups, cursor, running, done, yielded>>
fetchVars ==
    <<transformed_points, lookup_pc, all_heights, missing_points, geoportal_h,
      fetch_pc, point_strings, attempt, response, batch_heights, only_failures, finished,
      input_h, diff_h_geoportal, only_h>>
gridVars ==
    <<punkty_kandydaci, obszar_wielokat, odleglosc_siatki, lista_srodkow,
      srodek_nr, odwiedzone_indeksy_w_np, wyniki_siatki, grid_pc,
      results_df, geoportal_tolerance>>
cfgVars == <<config_file, all_configs, last_saved, latest_save>>
vars == <<zoneVars, roleVars, pairVars, dispVars, fetchVars, gridVars, cfgVars>>

(***************************************************************************)
(* Python values.  Optional[T] is a sequence of length at most one; the    *)
(* outcome of a call is the value it returns or the exception it raises.   *)
(***************************************************************************)
None == <<>>
Some(v) == <<v>>
Return(v) == [raised |-> "", value |-> v]
Raise(e) == [raised |-> e, value |-> None]

(***************************************************************************)
(* Coordinates of the Zone Resolver are 64-bit floats.  A finite one is    *)
(* kept as its number of tenths, so that int() has a fraction to truncate; *)
(* nan and the infinities are values of their own.                         *)
(***************************************************************************)
Fin(t) == [kind |-> "fin", v |-> t]
NaN == [kind |-> "nan", v |-> 0]
PosInf == [kind |-> "inf", v |-> 1]
NegInf == [kind |-> "inf", v |-> -1]

\* int(coord): truncation toward zero; ValueError for nan, OverflowError for
\* an infinity.
PyInt(coord) ==
    CASE coord.kind = "nan" -> Raise("ValueError")
      [] coord.kind = "inf" -> Raise("OverflowError")
      [] OTHER -> Return(IF coord.v >= 0 THEN coord.v \div 10
                         ELSE -((-coord.v) \div 10))

DigitChars == <<"0", "1", "2", "3", "4", "5", "6", "7", "8", "9">>

RECURSIVE NatStr(_)
NatStr(n) ==
    IF n < 10 THEN <<DigitChars[n + 1]>>
    ELSE Append(NatStr(n \div 10), DigitChars[(n % 10) + 1])

\* str(i) of a Python int: its decimal digits, a leading "-" when negative.
PyStr(i) == IF i < 0 THEN <<"-">> \o NatStr(-i) ELSE NatStr(i)

\* The exceptions the two try blocks of data_loader.py catch.
Caught == {"ValueError", "TypeError", "IndexError"}

\* {"5": 2176, "6": 2177, "7": 2178, "8": 2179}.get(c)
EpsgTableDropsZone8(c) ==
    CASE c = "5" -> Some(2176)
      [] c = "6" -> Some(2177)
      [] c = "7" -> Some(2178)
      [] OTHER -> None

EpsgTable(c) ==
    CASE c = "5" -> Some(2176)
      [] c = "6" -> Some(2177)
      [] c = "7" -> Some(2178)
      [] c = "8" -> Some(2179)
      [] OTHER -> None

\* The shape test on the leading digit alone, whatever the number of digits.
has_easting_structure_any_length(coord) ==
    LET i == PyInt(coord) IN
    IF i.raised # ""
    THEN (IF i.raised \in Caught THEN Return(FALSE) ELSE Raise(i.raised))
    ELSE LET coord_str == PyStr(i.value) IN
         Return(coord_str[1] \in {"5", "6", "7", "8"})

\* has_easting_structure(coord)
has_easting_structure(coord) ==
    LET i == PyInt(coord) IN
    IF i.raised # ""
    THEN (IF i.raised \in Caught THEN Return(FALSE) ELSE Raise(i.raised))
    ELSE LET coord_str == PyStr(i.value) IN
         Return(Len(coord_str) = 7 /\ coord_str[1] \in {"5", "6", "7", "8"})

\* get_source_epsg(easting_coordinate)
get_source_epsg(e) ==
    LET i == PyInt(e) IN
    IF i.raised # ""
    THEN (IF i.raised \in Caught THEN Return(None) ELSE Raise(i.raised))
    ELSE LET easting_str == PyStr(i.value) IN
         IF Len(easting_str) = 7 THEN Return(EpsgTable(easting_str[1]))
         ELSE Return(None)

(***************************************************************************)
(* get_source_epsg as a state machine: one call on one easting.            *)
(***************************************************************************)
RECURSIVE Pow10(_)
Pow10(k) == IF k = 0 THEN 1 ELSE 10 * Pow10(k - 1)

\* Eastings whose integer form has DigitCounts digits: every leading digit,
\* the smallest and the largest tail, with and without a fraction, of
\* either sign; the two eastings of the specification's scenario; zero, nan
\* and the infinities.
DigitCounts == 6..8
EastingSamples ==
    { Fin(s * ((d * Pow10(k - 1) + t * (Pow10(k - 1) - 1)) * 10 + f)) :
        <<s, d, k, t, f>> \in {1, -1} \X (1..9) \X DigitCounts \X {0, 1} \X {0, 9} }
    \cup {Fin(75123450), Fin(5123450), Fin(0), Fin(-9), NaN, PosInf, NegInf}

EpsgIdle ==
    /\ easting_coordinate = NaN
    /\ source_epsg = Return(None)
    /\ epsg_pc = "idle"

EpsgInit ==
    /\ easting_coordinate \in EastingSamples
    /\ source_epsg = Return(None)
    /\ epsg_pc = "call"

CallGetSourceEpsg ==
    /\ epsg_pc = "call"
    /\ source_epsg' = get_source_epsg(easting_coordinate)
    /\ epsg_pc' = IF source_epsg'.raised = "" THEN "returned" ELSE "raised"
    /\ UNCHANGED <<easting_coordinate, roleVars, pairVars, dispVars, fetchVars, gridVars,
                   cfgVars>>

(***************************************************************************)
(* assign_geodetic_roles as a state machine: one call on one DataFrame.    *)
(* A row is [x, y, geodetic_northing, geodetic_easting]; the last two      *)
(* columns are absent until the call adds them.                            *)
(***************************************************************************)
MaxRows == 2
CoordSamples ==
    {Fin(75123450), Fin(57123456), Fin(5123450), Fin(1234), PosInf}

Row(x, y) ==
    [x |-> x, y |-> y, geodetic_northing |-> None, geodetic_easting |-> None]

RECURSIVE SeqsUpTo(_, _)
SeqsUpTo(S, n) ==
    IF n = 0 THEN {<<>>}
    ELSE LET shorter == SeqsUpTo(S, n - 1) IN
         shorter \cup {Append(q, e) : q \in {r \in shorter : Len(r) = n - 1}, e \in S}

Surveying(d) ==
    [i \in DOMAIN d |->
        [d[i] EXCEPT !.geodetic_northing = Some(d[i].x),
                     !.geodetic_easting = Some(d[i].y)]]
Gis(d) ==
    [i \in DOMAIN d |->
        [d[i] EXCEPT !.geodetic_northing = Some(d[i].y),
                     !.geodetic_easting = Some(d[i].x)]]

\* The convention sniffed from each row by itself rather than from df.iloc[0].
assign_geodetic_roles_row_by_row(d) ==
    IF \E i \in DOMAIN d :
          \/ has_easting_structure(d[i].y).raised # ""
          \/ /\ ~has_easting_structure(d[i].y).value
             /\ has_easting_structure(d[i].x).raised # ""
    THEN Raise("OverflowError")
    ELSE Return([i \in DOMAIN d |->
            IF has_easting_structure(d[i].y).value THEN Surveying(d)[i]
            ELSE IF has_easting_structure(d[i].x).value THEN Gis(d)[i]
            ELSE Surveying(d)[i]])

\* assign_geodetic_roles(df): the outcome is the DataFrame returned or the
\* exception has_easting_structure lets through.
assign_geodetic_roles(d) ==
    IF d = <<>> THEN Return(d)
    ELSE LET first_row == d[1]
             y_shape == has_easting_structure(first_row.y)
             x_shape == has_easting_structure(first_row.x)
         IN  IF y_shape.raised # "" THEN Raise(y_shape.raised)
             ELSE IF y_shape.value THEN Return(Surveying(d))
             ELSE IF x_shape.raised # "" THEN Raise(x_shape.raised)
             ELSE IF x_shape.value THEN Return(Gis(d))
             ELSE Return(Surveying(d))

RolesIdle ==
    /\ df = <<>>
    /\ roles_pc = "idle"

RolesInit ==
    /\ df \in SeqsUpTo({Row(x, y) : x \in CoordSamples, y \in CoordSamples}, MaxRows)
    /\ roles_pc = "call"

CallAssignGeodeticRoles ==
    /\ roles_pc = "call"
    /\ LET out == assign_geodetic_roles(df) IN
         /\ roles_pc' = IF out.raised = "" THEN "returned" ELSE "raised"
         /\ df' = IF out.raised = "" THEN out.value ELSE df
    /\ UNCHANGED <<zoneVars, pairVars, dispVars, fetchVars, gridVars, cfgVars>>

(***************************************************************************)
(* process_data, the Pairing Engine (use_geoportal = False).               *)
(*                                                                         *)
(* Planar coordinates are whole metres, so that a distance is decided by   *)
(* its square; a height is a number of 1/32 m, which a 64-bit float holds  *)
(* exactly: 320 is 10.0 and 336 is 10.5.  A rounded height difference is a *)
(* sign and a number of 10^-round_decimals metres: Python keeps the sign   *)
(* of a difference that rounds to zero.                                    *)
(***************************************************************************)
MaxRef == 2
MaxCmp == 2
MaxDist == 2
round_decimals == 1

Positions == {<<0, 0>>, <<1, 0>>, <<2, 0>>, <<0, 1>>, <<1, 1>>}
RefHeights == {Some(320)}
CmpHeights == {Some(336)}
Tolerances == {None, Some(2)}

Point(id, pos, h) == [id |-> id, x |-> pos[1], y |-> pos[2], h |-> h]

\* The DataFrames of at most n rows over the given positions and heights;
\* the row at position i has the identifier <<prefix, i>>.
Frames(prefix, n, heights) ==
    { [i \in DOMAIN q |-> Point(<<prefix, i>>, q[i][1], q[i][2])] :
        q \in SeqsUpTo(Positions \X heights, n) }

Dist2(ax, ay, bx, by) == (ax - bx) * (ax - bx) + (ay - by) * (ay - by)

\* KDTree.query(point): the indices a nearest-neighbour query may return, the
\* rows at the smallest distance (any one of them when several tie).
Nearest(cmp, x, y) ==
    { j \in DOMAIN cmp :
        \A k \in DOMAIN cmp :
            Dist2(x, y, cmp[j].x, cmp[j].y) <= Dist2(x, y, cmp[k].x, cmp[k].y) }

\* A strict bound in place of distance <= max_distance.
MatchAcceptedStrict(m, distance2) == (m = 0) \/ (distance2 < m * m)

\* (max_distance == 0) or (distance <= max_distance), on the squares.
MatchAccepted(m, distance2) == (m = 0) \/ (distance2 <= m * m)

\* Rounding to the nearest integer, ties to the even one; num, den > 0.
RoundHalfEven(num, den) ==
    LET q == num \div den
        r == num % den
    IN  IF 2 * r < den THEN q
        ELSE IF 2 * r > den THEN q + 1
        ELSE IF q % 2 = 0 THEN q ELSE q + 1

Abs(n) == IF n < 0 THEN -n ELSE n

\* round(diff, round_decimals) of a difference of 1/32 m.
PyRound(parts, decimals) ==
    [neg |-> parts < 0, mag |-> RoundHalfEven(Abs(parts) * Pow10(decimals), 32)]

\* 0.0 if diff_rounded == -0.0 else diff_rounded
NoNegativeZero(d) == IF d.mag = 0 THEN [neg |-> FALSE, mag |-> 0] ELSE d

\* The difference comparison minus reference.
DiffHComparisonMinusReference(h_ref, h_cmp) ==
    IF h_ref = None \/ h_cmp = None THEN None
    ELSE Some(NoNegativeZero(PyRound(h_cmp[1] - h_ref[1], round_decimals)))

\* float(point["h"]) - float(nearest["h"]), rounded; "brak_danych" (absent)
\* when a height is missing (TypeError).
DiffH(h_ref, h_cmp) ==
    IF h_ref = None \/ h_cmp = None THEN None
    ELSE Some(NoNegativeZero(PyRound(h_ref[1] - h_cmp[1], round_decimals)))

\* "Tak" if abs(diff_val) <= tolerance else "Nie"; no classification when
\* there is no tolerance or the difference is not a number.
Classify(tolerance, diff) ==
    IF tolerance = None \/ diff = None THEN None
    ELSE Some(IF diff[1].mag <= tolerance[1] THEN "Tak" ELSE "Nie")

\* The loop body with the reciprocity check of the historical variant: the
\* match is kept only when the reference point is a nearest reference point
\* of the comparison point found.
RowDataReciprocal(point, cmp, m, tolerance, nearest_idx) ==
    LET ref == [id_odniesienia |-> point.id, x_odniesienia |-> point.x,
                y_odniesienia |-> point.y, h_odniesienia |-> point.h]
    IN  IF cmp = None \/ cmp = Some(<<>>)
        THEN ref @@ [pair_columns |-> FALSE, match |-> None, diff_h |-> None,
                     osiaga_dokladnosc |-> None]
        ELSE LET c == cmp[1][nearest_idx]
                 distance2 == Dist2(point.x, point.y, c.x, c.y)
                 back == \E k \in Nearest(input_df, c.x, c.y) : input_df[k].id = point.id
             IN  IF MatchAccepted(m, distance2) /\ back
                 THEN ref @@ [pair_columns |-> TRUE,
                              match |-> Some([id_porownania |-> c.id,
                                              x_porownania |-> c.x,
                                              y_porownania |-> c.y,
                                              h_porownania |-> c.h,
                                              odleglosc_pary2 |-> distance2]),
                              diff_h |-> DiffH(point.h, c.h),
                              osiaga_dokladnosc |->
                                  Classify(tolerance, DiffH(point.h, c.h))]
                 ELSE ref @@ [pair_columns |-> TRUE, match |-> None,
                              diff_h |-> None, osiaga_dokladnosc |-> None]

\* The row of one reference point: the loop body of process_data.  nearest_idx
\* is the index the nearest-neighbour query returned.
RowData(point, cmp, m, tolerance, nearest_idx) ==
    LET ref == [id_odniesienia |-> point.id, x_odniesienia |-> point.x,
                y_odniesienia |-> point.y, h_odniesienia |-> point.h]
    IN  IF cmp = None \/ cmp = Some(<<>>)
        THEN ref @@ [pair_columns |-> FALSE, match |-> None, diff_h |-> None,
                     osiaga_dokladnosc |-> None]
        ELSE LET c == cmp[1][nearest_idx]
                 distance2 == Dist2(point.x, point.y, c.x, c.y)
             IN  IF MatchAccepted(m, distance2)
                 THEN ref @@ [pair_columns |-> TRUE,
                              match |-> Some([id_porownania |-> c.id,
                                              x_porownania |-> c.x,
                                              y_porownania |-> c.y,
                                              h_porownania |-> c.h,
                                              odleglosc_pary2 |-> distance2]),
                              diff_h |-> DiffH(point.h, c.h),
                              osiaga_dokladnosc |->
                                  Classify(tolerance, DiffH(point.h, c.h))]
                 ELSE ref @@ [pair_columns |-> TRUE, match |-> None,
                              diff_h |-> None, osiaga_dokladnosc |-> None]

PairIdle ==
    /\ input_df = <<>>
    /\ comparison_df = None
    /\ max_distance = 0
    /\ comparison_tolerance = None
    /\ results = <<>>
    /\ proc_pc = "idle"

PairInit ==
    /\ input_df \in Frames("P", MaxRef, RefHeights)
    /\ comparison_df \in {None} \cup {Some(f) : f \in Frames("Q", MaxCmp, CmpHeights)}
    /\ max_distance \in 0..MaxDist
    /\ comparison_tolerance \in Tolerances
    /\ results = <<>>
    /\ proc_pc = "loop"

\* process_data on one reference point and one comparison point, 0, 1 or
\* sqrt(5) m away, with heights whose differences are -0.5, -0.03125 (which
\* rounds to -0.0), 0.25 (a tie of the rounding), 0.28125 and 0.
DiffRefHeights == {Some(320), Some(321)}
DiffCmpHeights == {Some(336), Some(321), Some(312)}
DiffCmpPositions == {<<1, 0>>, <<2, 1>>}

DiffInit ==
    /\ input_df \in {<<Point(<<"P", 1>>, <<0, 0>>, h)>> : h \in DiffRefHeights}
    /\ comparison_df \in
          {Some(<<Point(<<"Q", 1>>, pos, h)>>) :
              pos \in DiffCmpPositions, h \in DiffCmpHeights}
    /\ max_distance \in 0..MaxDist
    /\ comparison_tolerance = None
    /\ results = <<>>
    /\ proc_pc = "loop"

\* One iteration of the loop over input_df.iterrows().
ProcessPoint ==
    /\ proc_pc = "loop"
    /\ Len(results) < Len(input_df)
    /\ LET point == input_df[Len(results) + 1] IN
         IF comparison_df = None \/ comparison_df = Some(<<>>)
         THEN results' = Append(results,
                  RowData(point, comparison_df, max_distance, comparison_tolerance, 1))
         ELSE \E nearest_idx \in Nearest(comparison_df[1], point.x, point.y) :
                  results' = Append(results,
                      RowData(point, comparison_df, max_distance,
                              comparison_tolerance, nearest_idx))
    /\ UNCHANGED <<input_df, comparison_df, max_distance, comparison_tolerance,
                   proc_pc, zoneVars, roleVars, dispVars, fetchVars, gridVars, cfgVars>>

\* The sort key of a row: abs of diff_h, absent when diff_h is not a number.
SortedByAbsDiff(rows) ==
    \A i, j \in DOMAIN rows :
        i < j => \/ rows[j].diff_h = None
                 \/ /\ rows[i].diff_h # None
                    /\ rows[i].diff_h[1].mag >= rows[j].diff_h[1].mag

Reorderings(rows) ==
    { [i \in DOMAIN rows |-> rows[f[i]]] :
        f \in { g \in [DOMAIN rows -> DOMAIN rows] :
                    \A a, b \in DOMAIN rows : a # b => g[a] # g[b] } }

\* After the loop: the rows are sorted by abs(diff_h), largest first and the
\* rows without a number last, when the diff_h column exists (rows of equal
\* key in any order); then the DataFrame is returned.
SortAndReturn ==
    /\ proc_pc = "loop"
    /\ Len(results) = Len(input_df)
    /\ IF \E i \in DOMAIN results : results[i].pair_columns
       THEN results' \in {r \in Reorderings(results) : SortedByAbsDiff(r)}
       ELSE results' = results
    /\ proc_pc' = "returned"
    /\ UNCHANGED <<input_df, comparison_df, max_distance, comparison_tolerance,
                   zoneVars, roleVars, dispVars, fetchVars, gridVars, cfgVars>>

(***************************************************************************)
(* transform_coordinates_parallel, the Coordinate Transform Dispatcher.    *)
(*                                                                         *)
(* The reprojection itself is pyproj's: the pair it returns for a point is *)
(* kept as the zone and the coordinates it was computed from.              *)
(***************************************************************************)
MaxPoints == 3
CudaBatch == 2
ChunkSize == 2
NumWorkers == 2

Zones == {2176, 2177, 2178, 2179}
DispatchEastings == {Fin(75123450), Fin(65123450), Fin(5123450), PosInf}
FragileZones == {2177}

\* The DataFrames of at most n rows; row i has a northing of its own, so
\* that every row differs from every other.
DispatchFrames(n) ==
    { [i \in DOMAIN q |->
          [geodetic_northing |-> Fin(57000000 + 10 * i), geodetic_easting |-> q[i]]] :
        q \in SeqsUpTo(DispatchEastings, n) }

\* transformer.transform(easting, northing) of the transformer of a zone
Transform(zone, easting, northing) == <<"EPSG:2180", zone, easting, northing>>

Range(q) == {q[i] : i \in DOMAIN q}

RECURSIVE SeqOfSet(_)
\* The indices of a set in ascending order.
SeqOfSet(S) ==
    IF S = {} THEN <<>>
    ELSE LET lo == CHOOSE a \in S : \A b \in S : a <= b
         IN  <<lo>> \o SeqOfSet(S \ {lo})

\* worker_transform with no handler for the CRSError of Transformer.from_crs.
worker_transform_crs_uncaught(d, index) ==
    LET source_epsg_ == get_source_epsg(d[index].geodetic_easting) IN
    IF source_epsg_.raised # "" THEN Raise(source_epsg_.raised)
    ELSE IF source_epsg_.value = None THEN Return(None)
    ELSE IF source_epsg_.value[1] \in crs_error THEN Raise("CRSError")
    ELSE IF index = bad_point THEN Raise("ProjError")
    ELSE Return(Some(Transform(source_epsg_.value[1], d[index].geodetic_easting,
                               d[index].geodetic_northing)))

\* worker_transform((index, northing, easting)): the outcome of one call.
worker_transform(d, index) ==
    LET source_epsg_ == get_source_epsg(d[index].geodetic_easting) IN
    IF source_epsg_.raised # "" THEN Raise(source_epsg_.raised)
    ELSE IF source_epsg_.value = None THEN Return(None)
    ELSE IF source_epsg_.value[1] \in crs_error THEN Return(None)
    ELSE IF index = bad_point THEN Raise("ProjError")
    ELSE Return(Some(Transform(source_epsg_.value[1], d[index].geodetic_easting,
                               d[index].geodetic_northing)))

\* The number of Transformer.from_crs calls a worker_transform call makes.
WorkerConstructs(d, index, zone) ==
    LET source_epsg_ == get_source_epsg(d[index].geodetic_easting) IN
    IF source_epsg_.raised = "" /\ source_epsg_.value = Some(zone) THEN 1 ELSE 0

\* The chunks of pool.imap(..., chunksize): chunk c holds the indices
\* (c - 1) * ChunkSize + 1 .. c * ChunkSize that exist.
NumChunks(n) == (n + ChunkSize - 1) \div ChunkSize
ChunkIndices(n, c) ==
    { i \in 1..n : i > (c - 1) * ChunkSize /\ i <= c * ChunkSize }

\* mapstar: the worker maps worker_transform over its chunk; the first
\* exception ends the chunk and is its outcome.
RECURSIVE MapChunk(_, _)
MapChunk(d, idxs) ==
    IF idxs = <<>> THEN Return(<<>>)
    ELSE LET head == worker_transform(d, idxs[1]) IN
         IF head.raised # "" THEN Raise(head.raised)
         ELSE LET rest == MapChunk(d, Tail(idxs)) IN
              IF rest.raised # "" THEN rest
              ELSE Return(<<head.value>> \o rest.value)

\* The indices of a chunk on which worker_transform is called at all.
RECURSIVE Visited(_, _)
Visited(d, idxs) ==
    IF idxs = <<>> THEN {}
    ELSE IF worker_transform(d, idxs[1]).raised # "" THEN {idxs[1]}
    ELSE {idxs[1]} \cup Visited(d, Tail(idxs))

\* The number of Transformer.from_crs calls for a zone that the
\* worker_transform calls on the indices S make.
ConstructCalls(d, S, zone) ==
    Cardinality({i \in S : WorkerConstructs(d, i, zone) = 1})

\* The chunks on the result queue, and the outcome of one of them.
DoneChunks(done_) == {done_[k].chunk : k \in DOMAIN done_}
OutcomeOf(done_, c) == done_[CHOOSE k \in DOMAIN done_ : done_[k].chunk = c].outcome

\* An iterator that hands out whatever chunk is done (imap_unordered).
ImapReadyUnordered(yielded_, done_) == DoneChunks(done_) \ Range(yielded_)

\* The chunk the imap iterator can yield: the one after the last it
\* yielded, once that chunk is done.
ImapReady(yielded_, done_) == {Len(yielded_) + 1} \cap DoneChunks(done_)

\* get_epsg_zones_for_batch(eastings): the zone of each index of idxs, -1
\* (here 0 - 1) where get_source_epsg returns None; the exception of the
\* first get_source_epsg call that raises.
EpsgZones(d, idxs) ==
    IF \E i \in idxs : get_source_epsg(d[i].geodetic_easting).raised # ""
    THEN Raise(get_source_epsg(
             d[CHOOSE i \in idxs :
                 /\ get_source_epsg(d[i].geodetic_easting).raised # ""
                 /\ \A k \in idxs :
                       get_source_epsg(d[k].geodetic_easting).raised # "" => i <= k
              ].geodetic_easting).raised)
    ELSE Return([i \in idxs |->
            LET z == get_source_epsg(d[i].geodetic_easting).value IN
            IF z = None THEN 0 - 1 ELSE z[1]])

\* create_transformers_for_zones(unique_epsg_zones): the zones that got a
\* transformer (a CRSError leaves the zone without one).
CreateTransformers(unique_zones) == {z \in unique_zones : z > 0 /\ z \notin crs_error}

\* zone_groups of the optimised CUDA path: for each zone with a
\* transformer, in the order of its first point, the indices of its points
\* in ascending order.
ZoneGroups(epsg_zones, transformers) ==
    LET first(z) == CHOOSE i \in DOMAIN epsg_zones :
                        /\ epsg_zones[i] = z
                        /\ \A k \in DOMAIN epsg_zones : epsg_zones[k] = z => i <= k
        firsts == {first(z) : z \in {epsg_zones[i] : i \in DOMAIN epsg_zones} \cap transformers}
        order == SeqOfSet(firsts)
    IN  [g \in DOMAIN order |->
            [zone |-> epsg_zones[order[g]],
             indices |-> SeqOfSet({i \in DOMAIN epsg_zones :
                                      epsg_zones[i] = epsg_zones[order[g]]})]]

\* The index a batch writes its j-th result to, taken as the position in
\* the zone's partition instead of the retained original index.
OriginalIdxByPosition(indices, i, j) == i + j

\* original_idx = indices[i + j] (j counted from 1 here)
OriginalIdx(indices, i, j) == indices[i + j]

\* One batch of one zone group: transformer.transform on the batch's
\* vectors, each result written at its original index; when the vector call
\* raises, the points of the batch are transformed one by one and the
\* failing one is left None.
CudaBatchResults(d, res, group, i) ==
    LET batch_end == IF i + CudaBatch < Len(group.indices) THEN i + CudaBatch
                     ELSE Len(group.indices)
        js == 1..(batch_end - i)
        target(j) == OriginalIdx(group.indices, i, j)
        src(j) == group.indices[i + j]
        out(j) == Some(Transform(group.zone, d[src(j)].geodetic_easting,
                                 d[src(j)].geodetic_northing))
        vector_raises == \E j \in js : src(j) = bad_point
    IN  [k \in DOMAIN res |->
            IF \E j \in js : target(j) = k
            THEN LET j == CHOOSE jj \in js :
                              /\ target(jj) = k
                              /\ \A j2 \in js : target(j2) = k => j2 <= jj
                 IN  IF vector_raises /\ src(j) = bad_point THEN None ELSE out(j)
            ELSE res[k]]

DispIdle ==
    /\ points = <<>>
    /\ cuda_path = "cpu"
    /\ crs_error = {}
    /\ bad_point = 0
    /\ disp_pc = "idle"
    /\ disp_results = <<>>
    /\ constructed = [z \in Zones |-> 0]
    /\ zone_groups = <<>>
    /\ cursor = <<1, 0>>
    /\ running = {}
    /\ done = <<>>
    /\ yielded = <<>>

DispInit ==
    /\ points \in DispatchFrames(MaxPoints)
    /\ cuda_path \in {"optimized", "standard", "neither", "cpu"}
    /\ crs_error \in SUBSET FragileZones
    /\ bad_point \in 0..Len(points)
    /\ disp_pc = "start"
    /\ disp_results = <<>>
    /\ constructed = [z \in Zones |-> 0]
    /\ zone_groups = <<>>
    /\ cursor = <<1, 0>>
    /\ running = {}
    /\ done = <<>>
    /\ yielded = <<>>

OutsideDisp == <<zoneVars, roleVars, pairVars, fetchVars, gridVars, cfgVars>>
DispEnv == <<points, cuda_path, crs_error, bad_point>>

\* if CUDA_MODULE_AVAILABLE and check_cuda_availability(): ... else the CPU.
\* cuda_path says what the machine offers: "cpu" no CUDA at all; "optimized"
\* both CUDA functions work; "standard" the optimised one returns None or
\* raises and the standard one works; "neither" both return None or raise.
ChoosePath ==
    /\ disp_pc = "start"
    /\ disp_pc' = IF cuda_path = "cpu" THEN "cpu" ELSE "cuda_optimized"
    /\ UNCHANGED <<DispEnv, disp_results, constructed, zone_groups, cursor,
                   running, done, yielded, OutsideDisp>>

\* transform_coordinates_cuda_optimized up to its loop: it returns None or
\* raises when the optimised path does not work, and the zone lookup may
\* raise; either way the dispatcher goes on to the standard CUDA path.
CudaOptimizedPrepare ==
    /\ disp_pc = "cuda_optimized"
    /\ LET epsg_zones == EpsgZones(points, DOMAIN points) IN
         IF cuda_path \in {"standard", "neither"} \/ epsg_zones.raised # ""
         THEN /\ disp_pc' = "cuda_standard"
              /\ UNCHANGED <<disp_results, constructed, zone_groups, cursor>>
         ELSE LET unique_zones == {z \in Range(epsg_zones.value) : z > 0}
                  transformers == CreateTransformers(unique_zones)
              IN  /\ constructed' = [z \in Zones |->
                         IF z \in unique_zones THEN constructed[z] + 1
                         ELSE constructed[z]]
                  /\ zone_groups' = ZoneGroups(epsg_zones.value, transformers)
                  /\ disp_results' = [i \in DOMAIN points |-> None]
                  /\ cursor' = <<1, 0>>
                  /\ disp_pc' = "cuda_optimized_loop"
    /\ UNCHANGED <<DispEnv, running, done, yielded, OutsideDisp>>

\* One batch of the loop over zone_groups.items().
CudaOptimizedBatch ==
    /\ disp_pc = "cuda_optimized_loop"
    /\ cursor[1] <= Len(zone_groups)
    /\ LET group == zone_groups[cursor[1]]
           i == cursor[2]
       IN  /\ disp_results' = CudaBatchResults(points, disp_results, group, i)
           /\ cursor' = IF i + CudaBatch < Len(group.indices)
                        THEN <<cursor[1], i + CudaBatch>>
                        ELSE <<cursor[1] + 1, 0>>
    /\ UNCHANGED <<DispEnv, disp_pc, constructed, zone_groups, running, done,
                   yielded, OutsideDisp>>

CudaOptimizedReturn ==
    /\ disp_pc = "cuda_optimized_loop"
    /\ cursor[1] > Len(zone_groups)
    /\ disp_pc' = "returned"
    /\ UNCHANGED <<DispEnv, disp_results, constructed, zone_groups, cursor,
                   running, done, yielded, OutsideDisp>>

\* transform_coordinates_cuda: it returns None or raises when CUDA does not
\* work; otherwise one batch of the loop over range(0, total_points,
\* batch_size), whose zone lookup may raise (the dispatcher then goes on to
\* the CPU).  cursor[2] is start_idx.
CudaStandardBatch ==
    /\ disp_pc = "cuda_standard"
    /\ cursor[2] < Len(points) \/ cuda_path = "neither"
    /\ LET start_idx == cursor[2]
           batch == {i \in DOMAIN points : i > start_idx /\ i <= start_idx + CudaBatch}
           epsg_zones == EpsgZones(points, batch)
       IN  IF cuda_path = "neither" \/ epsg_zones.raised # ""
           THEN /\ disp_pc' = "cpu"
                /\ disp_results' = <<>>
                /\ UNCHANGED <<constructed, cursor>>
           ELSE LET unique_zones == {z \in Range(epsg_zones.value) : z > 0}
                    transformers == CreateTransformers(unique_zones)
                    one(i) == IF epsg_zones.value[i] <= 0 THEN None
                              ELSE IF epsg_zones.value[i] \notin transformers THEN None
                              ELSE IF i = bad_point THEN None
                              ELSE Some(Transform(epsg_zones.value[i],
                                                  points[i].geodetic_easting,
                                                  points[i].geodetic_northing))
                    order == SeqOfSet(batch)
                IN  /\ constructed' = [z \in Zones |->
                           IF z \in unique_zones THEN constructed[z] + 1
                           ELSE constructed[z]]
                    /\ disp_results' =
                           disp_results \o [k \in DOMAIN order |-> one(order[k])]
                    /\ cursor' = <<cursor[1], start_idx + CudaBatch>>
                    /\ disp_pc' = "cuda_standard"
    /\ UNCHANGED <<DispEnv, zone_groups, running, done, yielded, OutsideDisp>>

CudaStandardReturn ==
    /\ disp_pc = "cuda_standard"
    /\ cuda_path # "neither"
    /\ cursor[2] >= Len(points)
    /\ disp_pc' = "returned"
    /\ UNCHANGED <<DispEnv, disp_results, constructed, zone_groups, cursor,
                   running, done, yielded, OutsideDisp>>

\* A worker process of the pool takes the next chunk of the task queue.
PoolTake ==
    /\ disp_pc = "cpu"
    /\ Cardinality(running) < NumWorkers
    /\ LET c == Cardinality(running) + Len(done) + 1 IN
         /\ c <= NumChunks(Len(points))
         /\ running' = running \cup {c}
    /\ UNCHANGED <<DispEnv, disp_pc, disp_results, constructed, zone_groups,
                   cursor, done, yielded, OutsideDisp>>

\* A worker process finishes its chunk and puts the chunk's outcome on the
\* result queue.
PoolFinish ==
    /\ disp_pc = "cpu"
    /\ \E c \in running :
         LET idxs == SeqOfSet(ChunkIndices(Len(points), c)) IN
         /\ running' = running \ {c}
         /\ done' = Append(done, [chunk |-> c, outcome |-> MapChunk(points, idxs)])
         /\ constructed' = [z \in Zones |->
                constructed[z] + ConstructCalls(points, Visited(points, idxs), z)]
    /\ UNCHANGED <<DispEnv, disp_pc, disp_results, zone_groups, cursor, yielded,
                   OutsideDisp>>

\* list(pool.imap(...)) takes the next chunk from the iterator: its results
\* are appended, or its exception leaves transform_coordinates_parallel
\* (and the with block terminates the pool).
ImapNext ==
    /\ disp_pc = "cpu"
    /\ \E c \in ImapReady(yielded, done) :
         IF OutcomeOf(done, c).raised # ""
         THEN /\ disp_pc' = "raised"
              /\ running' = {}
              /\ UNCHANGED <<disp_results, yielded>>
         ELSE /\ disp_results' = disp_results \o OutcomeOf(done, c).value
              /\ yielded' = Append(yielded, c)
              /\ UNCHANGED <<disp_pc, running>>
    /\ UNCHANGED <<DispEnv, constructed, zone_groups, cursor, done, OutsideDisp>>

\* return results
CpuReturn ==
    /\ disp_pc = "cpu"
    /\ Len(yielded) = NumChunks(Len(points))
    /\ disp_pc' = "returned"
    /\ UNCHANGED <<DispEnv, disp_results, constructed, zone_groups, cursor,
                   running, done, yielded, OutsideDisp>>

(***************************************************************************)
(* Elevation Lookup Client: get_geoportal_heights_concurrent and           *)
(* fetch_height_batch.  A transformed point is a pair (easting, northing)  *)
(* of floats; a coordinate is kept as its number of 1/1024 m, which a      *)
(* float holds exactly, so that two coordinates can differ and still have  *)
(* the same two decimals.  The text of a number is its sign, its hundredths*)
(* and the number of decimals it is printed with.                          *)
(***************************************************************************)
MaxTransformed == 2
MaxPoolPoints == 3
batch_size == 1
CONCURRENT_API_REQUESTS == 2
API_MAX_RETRIES == 5

\* f"{x:.2f}": the exact value rounded to two decimals, ties to even; a
\* negative value that rounds to zero keeps its sign ("-0.00").
Fmt2(x) ==
    [neg |-> x < 0, cents |-> RoundHalfEven(Abs(x) * 100, 2^10), places |-> 2]

\* The point string with the two coordinates in the other order.
point_string_easting_first(p) == <<Fmt2(p[1]), Fmt2(p[2])>>

\* f"{northing:.2f} {easting:.2f}" for easting, northing in unique_batch
point_string(p) == <<Fmt2(p[2]), Fmt2(p[1])>>

\* lookup_key = f"{p[1]:.2f} {p[0]:.2f}" of the missing-point check
lookup_key(p) == <<Fmt2(p[2]), Fmt2(p[1])>>

\* easting_2180, northing_2180 = transformed_point;
\* lookup_key = f"{northing_2180:.2f} {easting_2180:.2f}" of process_data
reader_lookup_key(transformed_point) ==
    LET easting_2180 == transformed_point[1]
        northing_2180 == transformed_point[2]
    IN  <<Fmt2(northing_2180), Fmt2(easting_2180)>>

\* Transformed points: 0.125 and 0.375 are ties of the rounding; the second
\* point differs from the first and has its two decimals; the third has a
\* small negative easting.
TransformedSamples == {<<128, 384>>, <<123, 390>>, <<-3, 384>>}

RECURSIVE Dedupe(_)
\* list(dict.fromkeys(batch)): the first occurrence of each tuple, in order.
Dedupe(q) ==
    IF q = <<>> THEN <<>>
    ELSE LET front == Dedupe(SubSeq(q, 1, Len(q) - 1))
             last == q[Len(q)]
         IN  IF last \in Range(front) THEN front ELSE Append(front, last)

\* The list parameter of the request URL.
PointStrings(batch) ==
    LET unique_batch == Dedupe(batch)
    IN  [i \in DOMAIN unique_batch |-> point_string(unique_batch[i])]

\* The list with a point at the origin in place of every None.
ValidPointsKeepsAbsent(q) ==
    [i \in DOMAIN q |-> IF q[i] = None THEN <<0, 0>> ELSE q[i][1]]

\* valid_points = [p for p in transformed_points if p is not None]
RECURSIVE ValidPoints(_)
ValidPoints(q) ==
    IF q = <<>> THEN <<>>
    ELSE (IF q[1] = None THEN <<>> ELSE <<q[1][1]>>) \o ValidPoints(Tail(q))

\* The valid points as one batch, whatever their number.
BatchesOneSlice(valid_points) == [b \in 1..1 |-> valid_points]

\* batches = [valid_points[i : i + batch_size] for i in range(0, len, batch_size)]
Min(a, b) == IF a < b THEN a ELSE b
Batches(valid_points) ==
    LET n == (Len(valid_points) + batch_size - 1) \div batch_size
    IN  [b \in 1..n |->
            SubSeq(valid_points, (b - 1) * batch_size + 1,
                   Min(b * batch_size, Len(valid_points)))]

(***************************************************************************)
(* The service.  A request ends in a RequestException (no connection, the  *)
(* 30 s timeout, an HTTP error status) or in a body: a list of lines, one  *)
(* per point string of the request.  A line echoes the point with no       *)
(* height (two parts), with the height 0.00, with a height that is not     *)
(* zero, with a height that is no number, or echoes the point in another   *)
(* number format with its height.  The empty list is the blank body.       *)
(***************************************************************************)
EntryKinds == {"no_height", "zero", "nonzero", "not_a_number", "reformatted"}

Reformatted(text) == [text EXCEPT !.places = 1]

Line(s, kind) ==
    CASE kind = "no_height" -> <<s[1], s[2]>>
      [] kind = "zero" -> <<s[1], s[2], "0.00">>
      [] kind = "nonzero" -> <<s[1], s[2], "123.45">>
      [] kind = "not_a_number" -> <<s[1], s[2], "abc">>
      [] kind = "reformatted" -> <<Reformatted(s[1]), Reformatted(s[2]), "123.45">>

Bodies(list_parameter) ==
    {[i \in DOMAIN list_parameter |-> Line(list_parameter[i], kinds[i])] :
        kinds \in [DOMAIN list_parameter -> EntryKinds]}

\* The outcomes of requests.get(url, timeout=30) and raise_for_status().
Outcomes(list_parameter) ==
    {Raise("RequestException"), Return(<<>>)}
        \cup {Return(body) : body \in Bodies(list_parameter)}

\* float(h_api), in hundredths.
PyFloat(h_api) ==
    CASE h_api = "0.00" -> Return(0)
      [] h_api = "123.45" -> Return(12345)
      [] OTHER -> Raise("ValueError")

EmptyMap == <<>>

\* d[key] = value
SetItem(d, key, value) == (key :> value) @@ d

\* d.update(other)
Update(d, other) == other @@ d

RECURSIVE ParseLines(_, _, _)
\* for line in results: ... of fetch_height_batch: the map and all_zero
\* after the lines from the given one on.
ParseLines(lines, heights, all_zero) ==
    IF lines = <<>> THEN [batch_heights |-> heights, all_zero |-> all_zero]
    ELSE LET parts == lines[1] IN
         IF Len(parts) = 3
         THEN LET key == <<parts[1], parts[2]>>
                  h_val == PyFloat(parts[3])
              IN  IF h_val.raised = ""
                  THEN ParseLines(Tail(lines), SetItem(heights, key, h_val.value),
                                  all_zero /\ ~(h_val.value # 0))
                  ELSE ParseLines(Tail(lines), SetItem(heights, key, 0), all_zero)
         ELSE ParseLines(Tail(lines), heights, all_zero)

(***************************************************************************)
(* The calls of fetch_height_batch: one per first-pass batch, each run by  *)
(* a thread of the ThreadPoolExecutor, and call 0, the straggler pass,     *)
(* run by the caller itself.                                               *)
(***************************************************************************)
MaxBatches ==
    LET longest == IF MaxPoolPoints > MaxTransformed THEN MaxPoolPoints
                   ELSE MaxTransformed
    IN  (longest + batch_size - 1) \div batch_size
Calls == 0..MaxBatches
FirstPass == 1..Len(Batches(ValidPoints(transformed_points)))

\* The argument of a call.
BatchOf(b) ==
    IF b = 0 THEN missing_points ELSE Batches(ValidPoints(transformed_points))[b]

\* for attempt in range(1, API_MAX_RETRIES + 1), with one attempt more.
AttemptRangeOneMore == 1..(API_MAX_RETRIES + 1)

\* for attempt in range(1, API_MAX_RETRIES + 1)
AttemptRange == 1..API_MAX_RETRIES

\* The all-zero test without the exemption of the last attempt.
RetryAllZeroAlways(all_zero, attempt_) == all_zero

\* if all_zero and attempt < API_MAX_RETRIES: continue
RetryAllZero(all_zero, attempt_) == all_zero /\ attempt_ < API_MAX_RETRIES

\* A handler that lets the exception of the last attempt out.
OnRequestExceptionReraiseLast(attempt_) ==
    IF attempt_ = API_MAX_RETRIES THEN "raise" ELSE "continue"

\* except requests.exceptions.RequestException: log, and go on with the loop
OnRequestException(attempt_) == "continue"

\* The missing-point check over every valid point.
MissingPointsAll(valid_points, heights) == valid_points

RECURSIVE MissingPoints(_, _)
\* for p in valid_points: if lookup_key not in all_heights: append
MissingPoints(valid_points, heights) ==
    IF valid_points = <<>> THEN <<>>
    ELSE (IF lookup_key(valid_points[1]) \notin DOMAIN heights
          THEN <<valid_points[1]>> ELSE <<>>)
            \o MissingPoints(Tail(valid_points), heights)

\* The merge of as_completed: the results taken in the order the calls ended.
MergeResultsAsCompleted(results_, heights) ==
    LET RECURSIVE InOrder(_, _)
        InOrder(order, acc) ==
            IF order = <<>> THEN acc
            ELSE InOrder(Tail(order), Update(acc, results_[order[1]]))
    IN  InOrder(finished, heights)

RECURSIVE MergeResults(_, _)
\* for batch_result in results: all_heights.update(batch_result)
MergeResults(results_, heights) ==
    IF results_ = <<>> THEN heights
    ELSE MergeResults(Tail(results_), Update(heights, results_[1]))

FetchIdle ==
    /\ transformed_points = <<>>
    /\ lookup_pc = "idle"
    /\ all_heights = EmptyMap
    /\ missing_points = <<>>
    /\ geoportal_h = <<>>
    /\ fetch_pc = [b \in Calls |-> "unused"]
    /\ point_strings = [b \in Calls |-> <<>>]
    /\ attempt = [b \in Calls |-> 0]
    /\ response = [b \in Calls |-> None]
    /\ batch_heights = [b \in Calls |-> EmptyMap]
    /\ only_failures = [b \in Calls |-> TRUE]
    /\ finished = <<>>
    /\ input_h = <<>>
    /\ diff_h_geoportal = <<>>
    /\ only_h = <<>>

FetchInit ==
    /\ transformed_points \in
          SeqsUpTo({None} \cup {Some(p) : p \in TransformedSamples}, MaxTransformed)
    /\ lookup_pc = "start"
    /\ all_heights = EmptyMap
    /\ missing_points = <<>>
    /\ geoportal_h = <<>>
    /\ fetch_pc = [b \in Calls |-> "unused"]
    /\ point_strings = [b \in Calls |-> <<>>]
    /\ attempt = [b \in Calls |-> 0]
    /\ response = [b \in Calls |-> None]
    /\ batch_heights = [b \in Calls |-> EmptyMap]
    /\ only_failures = [b \in Calls |-> TRUE]
    /\ finished = <<>>
    /\ input_h = <<>>
    /\ diff_h_geoportal = <<>>
    /\ only_h = <<>>

OutsideFetch == <<zoneVars, roleVars, pairVars, dispVars, gridVars, cfgVars>>
readerVars == <<input_h, diff_h_geoportal, only_h>>

\* get_geoportal_heights_concurrent up to executor.map: no request and the
\* empty map when no point is valid, else one queued call per batch.
SubmitBatches ==
    /\ lookup_pc = "start"
    /\ IF ValidPoints(transformed_points) = <<>>
       THEN /\ lookup_pc' = "returned"
            /\ UNCHANGED fetch_pc
       ELSE /\ lookup_pc' = "pool"
            /\ fetch_pc' = [b \in Calls |-> IF b \in FirstPass THEN "queued" ELSE "unused"]
    /\ UNCHANGED <<transformed_points, all_heights, missing_points, geoportal_h,
                   point_strings, attempt, response, batch_heights, only_failures, finished,
                   readerVars, OutsideFetch>>

\* A pool that starts a thread for every submitted batch.
WorkerTakeUnbounded ==
    /\ lookup_pc = "pool"
    /\ \E b \in FirstPass :
        /\ fetch_pc[b] = "queued"
        /\ \A c \in FirstPass : c < b => fetch_pc[c] # "queued"
        /\ fetch_pc' = [fetch_pc EXCEPT ![b] =
                            IF BatchOf(b) = <<>> THEN "returned" ELSE "ready"]
        /\ point_strings' = [point_strings EXCEPT ![b] = PointStrings(BatchOf(b))]
        /\ finished' = IF BatchOf(b) = <<>> THEN Append(finished, b) ELSE finished
    /\ UNCHANGED <<transformed_points, lookup_pc, all_heights, missing_points,
                   geoportal_h, attempt, response, batch_heights, only_failures,
                   readerVars, OutsideFetch>>

\* A pool thread takes the next call off the work queue; the pool has
\* max_workers=CONCURRENT_API_REQUESTS threads.  fetch_height_batch up to
\* the loop: the empty map for an empty batch.
WorkerTake ==
    /\ lookup_pc = "pool"
    /\ \E b \in FirstPass :
        /\ fetch_pc[b] = "queued"
        /\ \A c \in FirstPass : c < b => fetch_pc[c] # "queued"
        /\ Cardinality({c \in FirstPass : fetch_pc[c] \in {"ready", "waiting"}})
              < CONCURRENT_API_REQUESTS
        /\ fetch_pc' = [fetch_pc EXCEPT ![b] =
                            IF BatchOf(b) = <<>> THEN "returned" ELSE "ready"]
        /\ point_strings' = [point_strings EXCEPT ![b] = PointStrings(BatchOf(b))]
        /\ finished' = IF BatchOf(b) = <<>> THEN Append(finished, b) ELSE finished
    /\ UNCHANGED <<transformed_points, lookup_pc, all_heights, missing_points,
                   geoportal_h, attempt, response, batch_heights, only_failures,
                   readerVars, OutsideFetch>>

\* The next iteration of the loop: requests.get(url, timeout=30).
Request ==
    /\ \E b \in Calls :
        /\ fetch_pc[b] = "ready"
        /\ attempt[b] + 1 \in AttemptRange
        /\ fetch_pc' = [fetch_pc EXCEPT ![b] = "waiting"]
        /\ attempt' = [attempt EXCEPT ![b] = @ + 1]
        /\ response' = [response EXCEPT ![b] = None]
    /\ UNCHANGED <<transformed_points, lookup_pc, all_heights, missing_points,
                   geoportal_h, point_strings, batch_heights, only_failures, finished,
                   readerVars, OutsideFetch>>

\* The request ends and the rest of the loop body runs: the exception is
\* logged, the blank body retried, the lines parsed and returned unless
\* they are all zero before the last attempt; after the loop, the empty map.
Respond ==
    /\ \E b \in Calls :
        /\ fetch_pc[b] = "waiting"
        /\ \E outcome \in Outcomes(point_strings[b]) :
            LET parsed == ParseLines(outcome.value, EmptyMap, TRUE)
                goes_on ==
                    IF outcome.raised # "" THEN OnRequestException(attempt[b])
                    ELSE IF outcome.value = <<>> THEN "continue"
                    ELSE IF RetryAllZero(parsed.all_zero, attempt[b]) THEN "continue"
                    ELSE "return"
                after ==
                    IF goes_on # "continue" THEN goes_on
                    ELSE IF attempt[b] + 1 \in AttemptRange THEN "ready"
                    ELSE "exhausted"
            IN  /\ response' = [response EXCEPT ![b] = Some(outcome)]
                /\ only_failures' = [only_failures EXCEPT ![b] =
                        @ /\ (outcome.raised # "" \/ outcome.value = <<>>)]
                /\ fetch_pc' = [fetch_pc EXCEPT ![b] =
                        CASE after = "ready" -> "ready"
                          [] after = "raise" -> "raised"
                          [] OTHER -> "returned"]
                /\ batch_heights' = [batch_heights EXCEPT ![b] =
                        IF after = "return" THEN parsed.batch_heights ELSE EmptyMap]
                /\ finished' = IF after # "ready" /\ b # 0 THEN Append(finished, b)
                                ELSE finished
    /\ UNCHANGED <<transformed_points, lookup_pc, all_heights, missing_points,
                   geoportal_h, point_strings, attempt, readerVars, OutsideFetch>>

\* Every call of the first pass has returned: the with block ends, the
\* results are merged in batch order and the missing points collected;
\* if there are any, fetch_missing_heights calls fetch_height_batch on them.
\* An exception of a call comes out of executor.map.
MergeFirstPass ==
    /\ lookup_pc = "pool"
    /\ \A b \in FirstPass : fetch_pc[b] \in {"returned", "raised"}
    /\ IF \E b \in FirstPass : fetch_pc[b] = "raised"
       THEN /\ lookup_pc' = "raised"
            /\ point_strings' = [b \in Calls |-> <<>>]
            /\ UNCHANGED <<all_heights, missing_points, fetch_pc>>
       ELSE LET results_ == [b \in FirstPass |-> batch_heights[b]]
                merged == MergeResults(results_, EmptyMap)
                missing == MissingPoints(ValidPoints(transformed_points), merged)
            IN  /\ all_heights' = merged
                /\ missing_points' = missing
                /\ IF missing = <<>>
                   THEN /\ lookup_pc' = "returned"
                        /\ point_strings' = [b \in Calls |-> <<>>]
                        /\ UNCHANGED fetch_pc
                   ELSE /\ lookup_pc' = "retry"
                        /\ point_strings' =
                              [b \in Calls |-> IF b = 0 THEN PointStrings(missing)
                                               ELSE <<>>]
                        /\ fetch_pc' = [fetch_pc EXCEPT ![0] = "ready"]
    /\ attempt' = [b \in Calls |-> 0]
    /\ response' = [b \in Calls |-> None]
    /\ UNCHANGED <<transformed_points, geoportal_h, batch_heights, only_failures, finished,
                   readerVars, OutsideFetch>>

\* all_heights.update(retry_heights); return all_heights
MergeRetry ==
    /\ lookup_pc = "retry"
    /\ fetch_pc[0] \in {"returned", "raised"}
    /\ IF fetch_pc[0] = "raised"
       THEN /\ lookup_pc' = "raised"
            /\ UNCHANGED all_heights
       ELSE /\ lookup_pc' = "returned"
            /\ all_heights' = Update(all_heights, batch_heights[0])
    /\ point_strings' = [b \in Calls |-> <<>>]
    /\ attempt' = [b \in Calls |-> 0]
    /\ response' = [b \in Calls |-> None]
    /\ UNCHANGED <<transformed_points, missing_points, geoportal_h, fetch_pc,
                   batch_heights, only_failures, finished, readerVars, OutsideFetch>>

(***************************************************************************)
(* The readers of the map: the loop of process_data with use_geoportal and *)
(* the loop of process_geoportal_only_data.  The h column of input_df and  *)
(* the heights of the service are numbers of hundredths of a metre; the    *)
(* heights of InputHeights are such that the float difference rounds as    *)
(* the exact one does.  "brak_danych" is the absent value.                 *)
(***************************************************************************)
InputHeights == {None, Some(12325), Some(12343)}

\* A lookup that answers 0.0 for a key that is not in the map.
geoportal_heights_get_default_zero(geoportal_heights, key) ==
    IF key \in DOMAIN geoportal_heights THEN Some(geoportal_heights[key]) ELSE Some(0)

\* geoportal_heights.get(lookup_key, "brak_danych")
geoportal_heights_get(geoportal_heights, key) ==
    IF key \in DOMAIN geoportal_heights THEN Some(geoportal_heights[key]) ELSE None

\* round(diff, round_decimals) of a difference of hundredths.
PyRoundCents(cents, decimals) ==
    [neg |-> cents < 0, mag |-> RoundHalfEven(Abs(cents) * Pow10(decimals), 100)]

\* if height != "brak_danych" and pd.notnull(point["h"]):
\*     round(float(point["h"]) - float(height), round_decimals), -0.0 as 0.0
\* else "brak_danych"
DiffHGeoportal(h, height) ==
    IF height = None \/ h = None THEN None
    ELSE Some(NoNegativeZero(PyRoundCents(h[1] - height[1], round_decimals)))

\* The height a reader finds for row i: "brak_danych" when the transformed
\* point is None, else what the map holds under the point's lookup key.
HeightOfRow(points_, heights, i) ==
    LET transformed_point == points_[i] IN
    IF transformed_point = None THEN None
    ELSE geoportal_heights_get(heights, reader_lookup_key(transformed_point[1]))

\* process_data reads the returned map, one row per point of input_df:
\* geoportal_h of row i is the height under the lookup key of transformed
\* point i, "brak_danych" when the point or the key is absent, and
\* diff_h_geoportal is the rounded difference to the row's h, "brak_danych"
\* when either height is.
ReadHeights ==
    /\ lookup_pc = "returned"
    /\ \E h \in [DOMAIN transformed_points -> InputHeights] :
          /\ input_h' = h
          /\ geoportal_h' =
                [i \in DOMAIN transformed_points |->
                    HeightOfRow(transformed_points, all_heights, i)]
          /\ diff_h_geoportal' =
                [i \in DOMAIN transformed_points |->
                    DiffHGeoportal(h[i], HeightOfRow(transformed_points, all_heights, i))]
    /\ lookup_pc' = "read"
    /\ UNCHANGED <<transformed_points, all_heights, missing_points, fetch_pc,
                   point_strings, attempt, response, batch_heights, only_failures, finished,
                   only_h, OutsideFetch>>

\* process_geoportal_only_data reads the returned map: h of row i is the
\* height under the lookup key of transformed point i, or "brak_danych".
ReadHeightsOnly ==
    /\ lookup_pc = "returned"
    /\ only_h' = [i \in DOMAIN transformed_points |->
                     HeightOfRow(transformed_points, all_heights, i)]
    /\ lookup_pc' = "read_only"
    /\ UNCHANGED <<transformed_points, all_heights, missing_points, geoportal_h,
                   fetch_pc, point_strings, attempt, response, batch_heights,
                   only_failures, finished, input_h, diff_h_geoportal, OutsideFetch>>

(***************************************************************************)
(* Grid Coverage Selector: generuj_srodki_heksagonalne_wektorowo and       *)
(* znajdz_punkty_dla_siatki.  The rows of the lattice are d*sqrt(3)/2      *)
(* apart, so a coordinate is a number p + q*sqrt(3) with p and q rational; *)
(* the sign of such a number is decided on integers.  A centre is kept by  *)
(* its column a and its row b: x = min_x + a*d/2, y = min_y + b*d*sqrt(3)/2*)
(* A candidate is kept by x2 = 2x and by y0, y1 with 2y = y0 + y1*sqrt(3). *)
(***************************************************************************)
MaxCandidates == 3

\* A + B*sqrt(3) >= 0
GeSqrt3(A, B) ==
    IF A >= 0 /\ B >= 0 THEN TRUE
    ELSE IF A <= 0 /\ B <= 0 THEN FALSE
    ELSE IF A >= 0 THEN A * A >= 3 * B * B
    ELSE 3 * B * B >= A * A

\* np.min(obszar_wielokat, axis=0), np.max(obszar_wielokat, axis=0)
MinOf(S) == CHOOSE m \in S : \A v \in S : m <= v
MaxOf(S) == CHOOSE m \in S : \A v \in S : m >= v
min_x(wielokat) == MinOf({wielokat[i][1] : i \in DOMAIN wielokat})
min_y(wielokat) == MinOf({wielokat[i][2] : i \in DOMAIN wielokat})
max_x(wielokat) == MaxOf({wielokat[i][1] : i \in DOMAIN wielokat})
max_y(wielokat) == MaxOf({wielokat[i][2] : i \in DOMAIN wielokat})

\* Twice the coordinates of a centre: 2x = CentreX2, 2y = CentreY0 + CentreY1*sqrt(3)
CentreX2(wielokat, d, c) == 2 * min_x(wielokat) + c.a * d
CentreY0(wielokat, d, c) == 2 * min_y(wielokat)
CentreY1(wielokat, d, c) == c.b * d

\* The grids of the bounding box with the odd rows on the columns of the
\* even rows.
wszystkie_punkty_unshifted(wielokat, d) ==
    LET W == max_x(wielokat) - min_x(wielokat)
        H == max_y(wielokat) - min_y(wielokat)
        rows == {b \in 0..(2 + (2 * H) \div d) : ~GeSqrt3(-2 * H, (b - 1) * d)}
        cols == {a \in 0..(2 + (2 * W) \div d) : (a - 2) * d < 2 * W}
    IN  {c \in [a : cols, b : rows] : c.a % 2 = 0}

\* The two grids of the bounding box.  np.arange(start, stop, step) holds
\* start + i*step for the i >= 0 with start + i*step < stop: the rows b with
\* (b - 1)*d*sqrt(3)/2 < max_y - min_y, the columns a with
\* (a - 2)*d/2 < max_x - min_x; even rows hold the even columns from 0, odd
\* rows the odd columns from -1.
wszystkie_punkty(wielokat, d) ==
    LET W == max_x(wielokat) - min_x(wielokat)
        H == max_y(wielokat) - min_y(wielokat)
        rows == {b \in 0..(2 + (2 * H) \div d) : ~GeSqrt3(-2 * H, (b - 1) * d)}
        cols == {a \in (-1)..(2 + (2 * W) \div d) : (a - 2) * d < 2 * W}
    IN  {c \in [a : cols, b : rows] : (c.a - c.b) % 2 = 0}

\* Path(obszar_wielokat).contains_points: the crossings test of matplotlib
\* over the edges of the path and its closing edge; an edge counts when its
\* ends are on different sides of the horizontal through the point
\* (vty >= ty) and the point is on its inner side.
EdgeCrosses(wielokat, d, c, v0, v1) ==
    LET X == CentreX2(wielokat, d, c)
        Y0 == CentreY0(wielokat, d, c)
        Y1 == CentreY1(wielokat, d, c)
        yflag0 == GeSqrt3(2 * v0[2] - Y0, -Y1)
        yflag1 == GeSqrt3(2 * v1[2] - Y0, -Y1)
    IN  /\ yflag0 # yflag1
        /\ GeSqrt3((2 * v1[2] - Y0) * (v0[1] - v1[1]) - (2 * v1[1] - X) * (v0[2] - v1[2]),
                   -Y1 * (v0[1] - v1[1])) = yflag1

contains_points(wielokat, d, c) ==
    LET n == Len(wielokat)
        crossing == {i \in 1..n :
                        EdgeCrosses(wielokat, d, c, wielokat[i], wielokat[(i % n) + 1])}
    IN  Cardinality(crossing) % 2 = 1

RECURSIVE LexsortXThenY(_)
\* The centres by x, then by y.
LexsortXThenY(S) ==
    IF S = {} THEN <<>>
    ELSE LET first == CHOOSE c \in S :
                          \A e \in S : c.a < e.a \/ (c.a = e.a /\ c.b <= e.b)
         IN  <<first>> \o LexsortXThenY(S \ {first})

RECURSIVE Lexsort(_)
\* np.lexsort((x, y)): by y, then by x.
Lexsort(S) ==
    IF S = {} THEN <<>>
    ELSE LET first == CHOOSE c \in S :
                          \A e \in S : c.b < e.b \/ (c.b = e.b /\ c.a <= e.a)
         IN  <<first>> \o Lexsort(S \ {first})

\* generuj_srodki_heksagonalne of geo_comparator.py, the generator that
\* walks the bounding box row by row.  The inner loop: from half-column a
\* of row b while x_coord < max_x + dx, a centre appended when
\* contains_point accepts it, x_coord += dx.
RECURSIVE WalkRow(_, _, _, _)
WalkRow(wielokat, d, a, b) ==
    IF (a - 2) * d < 2 * (max_x(wielokat) - min_x(wielokat))
    THEN (IF contains_points(wielokat, d, [a |-> a, b |-> b])
          THEN <<[a |-> a, b |-> b]>> ELSE <<>>)
            \o WalkRow(wielokat, d, a + 2, b)
    ELSE <<>>

\* The outer loop: from row wiersz while y_coord < max_y + dy; x_coord
\* starts at min_x, less dx/2 in an odd row; y_coord += dy, wiersz += 1.
RECURSIVE WalkRows(_, _, _)
WalkRows(wielokat, d, wiersz) ==
    IF ~GeSqrt3(-2 * (max_y(wielokat) - min_y(wielokat)), (wiersz - 1) * d)
    THEN WalkRow(wielokat, d, IF wiersz % 2 # 0 THEN -1 ELSE 0, wiersz)
            \o WalkRows(wielokat, d, wiersz + 1)
    ELSE <<>>

\* lista_srodkow.sort(key=lambda p: (p[1], p[0])): a stable sort by y,
\* then x.
RECURSIVE SortByYThenX(_)
SortByYThenX(q) ==
    IF q = <<>> THEN <<>>
    ELSE LET rest == SortByYThenX(Tail(q))
             before == {k \in DOMAIN rest :
                           \/ rest[k].b < q[1].b
                           \/ rest[k].b = q[1].b /\ rest[k].a < q[1].a}
             n == Cardinality(before)
         IN  SubSeq(rest, 1, n) \o <<q[1]>> \o SubSeq(rest, n + 1, Len(rest))

\* The walk that gives every row the columns of the even rows.
generuj_srodki_heksagonalne_no_shift(wielokat, d) ==
    LET RECURSIVE rows(_)
        rows(wiersz) ==
            IF ~GeSqrt3(-2 * (max_y(wielokat) - min_y(wielokat)), (wiersz - 1) * d)
            THEN WalkRow(wielokat, d, 0, wiersz) \o rows(wiersz + 1)
            ELSE <<>>
    IN  SortByYThenX(rows(0))

generuj_srodki_heksagonalne(wielokat, d) == SortByYThenX(WalkRows(wielokat, d, 0))

generuj_srodki_heksagonalne_wektorowo(wielokat, d) ==
    Lexsort({c \in wszystkie_punkty(wielokat, d) : contains_points(wielokat, d, c)})

(***************************************************************************)
(* The candidates.  A row of punkty_kandydaci has the label of its index,  *)
(* its position and its two heights, in quarter metres; geoportal_h may    *)
(* be no number ("brak_danych").  The labels of the index are distinct:    *)
(* the table is a filter of the result table of process_data.              *)
(***************************************************************************)
\* Positions: (4, 2*sqrt(3)), the midpoint of the first two centres of the
\* square with d = 4; (2, 3) and (6, 4), each near one of them; (9, 9).
CandidatePositions ==
    {[x2 |-> 8, y0 |-> 0, y1 |-> 4], [x2 |-> 4, y0 |-> 6, y1 |-> 0],
     [x2 |-> 12, y0 |-> 8, y1 |-> 0], [x2 |-> 18, y0 |-> 18, y1 |-> 0]}

CandidateHeights ==
    {[h_odniesienia |-> 400, geoportal_h |-> Some(400)],
     [h_odniesienia |-> 400, geoportal_h |-> Some(401)],
     [h_odniesienia |-> 400, geoportal_h |-> None]}

Polygons ==
    {<<<<0, 0>>, <<10, 0>>, <<10, 10>>, <<0, 10>>>>,
     <<<<0, 0>>, <<10, 0>>, <<0, 10>>>>,
     <<<<0, 0>>, <<1, 0>>, <<1, 1>>, <<0, 1>>>>}

Spacings == {4, 10}

CandidateTables ==
    {[i \in DOMAIN q |->
        [label |-> i, x2 |-> q[i][1].x2, y0 |-> q[i][1].y0, y1 |-> q[i][1].y1,
         h_odniesienia |-> q[i][2].h_odniesienia, geoportal_h |-> q[i][2].geoportal_h]] :
     q \in SeqsUpTo(CandidatePositions \X CandidateHeights, MaxCandidates)}

RECURSIVE dane_punktow(_)
\* .apply(pd.to_numeric, errors="coerce").dropna(): the rows all of whose
\* four columns are numbers, in order; punkty_np is their array.
dane_punktow(kandydaci) ==
    IF kandydaci = <<>> THEN <<>>
    ELSE (IF kandydaci[1].geoportal_h = None THEN <<>> ELSE <<kandydaci[1]>>)
            \o dane_punktow(Tail(kandydaci))

\* Four times the squared distance of row idx of punkty_np to a centre, as
\* A + B*sqrt(3).
Dist2A(punkty_np, idx, wielokat, d, c) ==
    LET ex == punkty_np[idx].x2 - CentreX2(wielokat, d, c)
        e0 == punkty_np[idx].y0 - CentreY0(wielokat, d, c)
        e1 == punkty_np[idx].y1 - CentreY1(wielokat, d, c)
    IN  ex * ex + e0 * e0 + 3 * e1 * e1
Dist2B(punkty_np, idx, wielokat, d, c) ==
    LET e0 == punkty_np[idx].y0 - CentreY0(wielokat, d, c)
        e1 == punkty_np[idx].y1 - CentreY1(wielokat, d, c)
    IN  2 * e0 * e1

\* The rows within d of the centre instead of d/2.
query_ball_point_whole_spacing(punkty_np, wielokat, d, c) ==
    {idx \in DOMAIN punkty_np :
        GeSqrt3(4 * d * d - Dist2A(punkty_np, idx, wielokat, d, c),
                -Dist2B(punkty_np, idx, wielokat, d, c))}

\* drzewo_kd.query_ball_point(srodek, r=promien_szukania): the rows within
\* d/2 of the centre, the distance d/2 included.
query_ball_point(punkty_np, wielokat, d, c) ==
    {idx \in DOMAIN punkty_np :
        GeSqrt3(d * d - Dist2A(punkty_np, idx, wielokat, d, c),
                -Dist2B(punkty_np, idx, wielokat, d, c))}

\* The candidates of a centre without the test on the claimed rows.
aktualni_kandydaci_idx_unfiltered(kandydaci_idx_w_np, odwiedzone) == kandydaci_idx_w_np

\* [idx for idx in kandydaci_idx_w_np if idx not in odwiedzone_indeksy_w_np]
aktualni_kandydaci_idx(kandydaci_idx_w_np, odwiedzone) ==
    {idx \in kandydaci_idx_w_np : idx \notin odwiedzone}

\* The key with the distance to the centre first.
KeyLeDistanceFirst(punkty_np, i, j, wielokat, d, c) ==
    LET hi == Abs(punkty_np[i].h_odniesienia - punkty_np[i].geoportal_h[1])
        hj == Abs(punkty_np[j].h_odniesienia - punkty_np[j].geoportal_h[1])
        closer == ~GeSqrt3(Dist2A(punkty_np, i, wielokat, d, c) - Dist2A(punkty_np, j, wielokat, d, c),
                           Dist2B(punkty_np, i, wielokat, d, c) - Dist2B(punkty_np, j, wielokat, d, c))
        farther == ~GeSqrt3(Dist2A(punkty_np, j, wielokat, d, c) - Dist2A(punkty_np, i, wielokat, d, c),
                            Dist2B(punkty_np, j, wielokat, d, c) - Dist2B(punkty_np, i, wielokat, d, c))
    IN  closer \/ (~farther /\ hi <= hj)

\* The key of min: (abs(h_odniesienia - geoportal_h), distance to the centre),
\* compared as tuples.
KeyLe(punkty_np, i, j, wielokat, d, c) ==
    LET hi == Abs(punkty_np[i].h_odniesienia - punkty_np[i].geoportal_h[1])
        hj == Abs(punkty_np[j].h_odniesienia - punkty_np[j].geoportal_h[1])
    IN  \/ hi < hj
        \/ /\ hi = hj
           /\ GeSqrt3(Dist2A(punkty_np, j, wielokat, d, c) - Dist2A(punkty_np, i, wielokat, d, c),
                      Dist2B(punkty_np, j, wielokat, d, c) - Dist2B(punkty_np, i, wielokat, d, c))

\* The rows min may return: those with the least key; among equal keys the
\* first of the list query_ball_point returned, whose order is not fixed.
Najlepsi(punkty_np, aktualni, wielokat, d, c) ==
    {i \in aktualni : \A j \in aktualni : KeyLe(punkty_np, i, j, wielokat, d, c)}

GridIdle ==
    /\ punkty_kandydaci = <<>>
    /\ obszar_wielokat = <<>>
    /\ odleglosc_siatki = 0
    /\ lista_srodkow = <<>>
    /\ srodek_nr = 0
    /\ odwiedzone_indeksy_w_np = {}
    /\ wyniki_siatki = <<>>
    /\ results_df = <<>>
    /\ geoportal_tolerance = None
    /\ grid_pc = "idle"

GridInit ==
    /\ punkty_kandydaci \in CandidateTables
    /\ obszar_wielokat \in Polygons
    /\ odleglosc_siatki \in Spacings
    /\ lista_srodkow = <<>>
    /\ srodek_nr = 0
    /\ odwiedzone_indeksy_w_np = {}
    /\ wyniki_siatki = <<>>
    /\ results_df = <<>>
    /\ geoportal_tolerance = None
    /\ grid_pc = "start"

OutsideGrid == <<zoneVars, roleVars, pairVars, dispVars, fetchVars, cfgVars>>

\* znajdz_punkty_dla_siatki up to the loop: the lattice is generated; with
\* no centre in the polygon the empty DataFrame is returned.
GenerujSiatke ==
    /\ grid_pc = "start"
    /\ lista_srodkow' =
          generuj_srodki_heksagonalne_wektorowo(obszar_wielokat, odleglosc_siatki)
    /\ grid_pc' = IF lista_srodkow' = <<>> THEN "returned" ELSE "loop"
    /\ UNCHANGED <<punkty_kandydaci, obszar_wielokat, odleglosc_siatki, srodek_nr,
                   odwiedzone_indeksy_w_np, wyniki_siatki, results_df,
                   geoportal_tolerance, OutsideGrid>>

\* One iteration of the loop over lista_srodkow.
PrzetworzSrodek ==
    /\ grid_pc = "loop"
    /\ srodek_nr < Len(lista_srodkow)
    /\ srodek_nr' = srodek_nr + 1
    /\ LET srodek == lista_srodkow[srodek_nr + 1]
           punkty_np == dane_punktow(punkty_kandydaci)
           kandydaci_idx_w_np ==
               query_ball_point(punkty_np, obszar_wielokat, odleglosc_siatki, srodek)
           aktualni ==
               aktualni_kandydaci_idx(kandydaci_idx_w_np, odwiedzone_indeksy_w_np)
       IN  IF aktualni = {}
           THEN UNCHANGED <<odwiedzone_indeksy_w_np, wyniki_siatki>>
           ELSE \E najlepszy_idx_w_np \in
                    Najlepsi(punkty_np, aktualni, obszar_wielokat, odleglosc_siatki, srodek) :
                    /\ odwiedzone_indeksy_w_np' =
                          odwiedzone_indeksy_w_np \cup {najlepszy_idx_w_np}
                    /\ wyniki_siatki' =
                          Append(wyniki_siatki, punkty_np[najlepszy_idx_w_np])
    /\ UNCHANGED <<punkty_kandydaci, obszar_wielokat, odleglosc_siatki, lista_srodkow,
                   grid_pc, results_df, geoportal_tolerance, OutsideGrid>>

\* After the loop: the empty DataFrame when nothing was chosen, else the
\* chosen rows in the order they were chosen.
ZwrocWyniki ==
    /\ grid_pc = "loop"
    /\ srodek_nr = Len(lista_srodkow)
    /\ grid_pc' = "returned"
    /\ UNCHANGED <<punkty_kandydaci, obszar_wielokat, odleglosc_siatki, lista_srodkow,
                   srodek_nr, odwiedzone_indeksy_w_np, wyniki_siatki, results_df,
                   geoportal_tolerance, OutsideGrid>>

(***************************************************************************)
(* main around the selector, lines 538-562, on the table process_data      *)
(* returns with use_geoportal.  A row has the label of its index, the      *)
(* position and the height of the reference point, the height of the       *)
(* service (no number when the point or its key is missing), the rounded   *)
(* difference to it, the rounded difference to the comparison point when   *)
(* one was matched, and its classification; heights are hundredths of a    *)
(* metre, differences and tolerances are numbers of 10^-round_decimals m.  *)
(***************************************************************************)
MaxResults == 2

\* Lines 238-249: the tolerance of the service decides when it is given and
\* the row has a diff_h_geoportal, else the tolerance of the comparison when
\* it is given and the row has a diff_h; a difference that is no number
\* gives no classification.
osiaga_dokladnosc(row_data, geoportal_tol, comparison_tol) ==
    IF geoportal_tol # None /\ "diff_h_geoportal" \in DOMAIN row_data
    THEN Classify(geoportal_tol, row_data.diff_h_geoportal)
    ELSE IF comparison_tol # None /\ "diff_h" \in DOMAIN row_data
    THEN Classify(comparison_tol, row_data.diff_h)
    ELSE None

\* The row of one reference point; match is the diff_h of its match, absent
\* when no comparison point was matched.
ResultRow(label, pos, h, height, match, geoportal_tol, comparison_tol) ==
    LET base == [label |-> label, x2 |-> pos.x2, y0 |-> pos.y0, y1 |-> pos.y1,
                 h_odniesienia |-> h, geoportal_h |-> height,
                 diff_h_geoportal |-> DiffHGeoportal(Some(h), height)]
        row_data == IF match = None THEN base ELSE base @@ [diff_h |-> match[1]]
    IN  row_data @@
            [osiaga_dokladnosc |-> osiaga_dokladnosc(row_data, geoportal_tol, comparison_tol)]

\* Reference points at two positions and 100.00 m; the service has no
\* height, the same height, 100.25 m (a difference that rounds to 0.2),
\* or 101.00 m; the match differs by 0.1 or 0.5 m, or there is none.
ResultPositions ==
    {[x2 |-> 8, y0 |-> 0, y1 |-> 4], [x2 |-> 4, y0 |-> 6, y1 |-> 0]}
ServiceHeights == {None, Some(10000), Some(10025), Some(10100)}
MatchDiffs ==
    {None, Some(Some([neg |-> FALSE, mag |-> 1])), Some(Some([neg |-> FALSE, mag |-> 5]))}
ServiceTolerances == {None, Some(0), Some(2)}

ResultTables(geoportal_tol, comparison_tol) ==
    {[i \in DOMAIN q |->
        ResultRow(i, q[i][1], 10000, q[i][2], q[i][3], geoportal_tol, comparison_tol)] :
     q \in SeqsUpTo(ResultPositions \X ServiceHeights \X MatchDiffs, MaxResults)}

\* The filter that keeps every classified row.
punkty_sklasyfikowane_df(results_) ==
    SelectSeq(results_, LAMBDA row : row.osiaga_dokladnosc # None)

\* results_df[results_df["osiaga_dokladnosc"] == "Tak"].copy()
punkty_dokladne_df(results_) ==
    SelectSeq(results_, LAMBDA row : row.osiaga_dokladnosc = Some("Tak"))

\* "osiaga_dokladnosc" in results_df.columns: some row was classified.
HasAccuracyColumn(results_) ==
    \E i \in DOMAIN results_ : results_[i].osiaga_dokladnosc # None

MainInit ==
    /\ geoportal_tolerance \in ServiceTolerances
    /\ comparison_tolerance \in Tolerances
    /\ results_df \in ResultTables(geoportal_tolerance, comparison_tolerance)
    /\ punkty_kandydaci = <<>>
    /\ obszar_wielokat = <<<<0, 0>>, <<10, 0>>, <<10, 10>>, <<0, 10>>>>
    /\ odleglosc_siatki = 4
    /\ lista_srodkow = <<>>
    /\ srodek_nr = 0
    /\ odwiedzone_indeksy_w_np = {}
    /\ wyniki_siatki = <<>>
    /\ grid_pc = "main"

\* if sparse_grid_requested and zakres_df is not None and the column exists:
\* the rows classified "Tak" go to znajdz_punkty_dla_siatki unless there
\* are none.
WywolajSiatke ==
    /\ grid_pc = "main"
    /\ \E sparse_grid_requested \in BOOLEAN :
          IF /\ sparse_grid_requested
             /\ HasAccuracyColumn(results_df)
             /\ punkty_dokladne_df(results_df) # <<>>
          THEN /\ punkty_kandydaci' = punkty_dokladne_df(results_df)
               /\ grid_pc' = "start"
          ELSE /\ UNCHANGED punkty_kandydaci
               /\ grid_pc' = "skipped"
    /\ UNCHANGED <<obszar_wielokat, odleglosc_siatki, lista_srodkow, srodek_nr,
                   odwiedzone_indeksy_w_np, wyniki_siatki, results_df,
                   geoportal_tolerance, OutsideGrid>>

(***************************************************************************)
(* process_data with use_geoportal, lines 116-118: the list the dispatcher *)
(* returns is handed to the lookup client unless it is empty.  The pair    *)
(* pyproj computes for a row is one of the transformed samples, by the     *)
(* row's northing.                                                         *)
(***************************************************************************)
Coordinates2180(transformed) ==
    LET row == (transformed[4].v - 57000000) \div 10
        samples == <<<<128, 384>>, <<-3, 384>>, <<123, 390>>>>
    IN  samples[((row - 1) % 3) + 1]

\* transformed_points = transform_coordinates_parallel(input_df)
\* if transformed_points: get_geoportal_heights_concurrent(transformed_points)
CallLookup ==
    /\ disp_pc = "returned"
    /\ lookup_pc = "idle"
    /\ disp_results # <<>>
    /\ transformed_points' =
          [i \in DOMAIN disp_results |->
              IF disp_results[i] = None THEN None
              ELSE Some(Coordinates2180(disp_results[i][1]))]
    /\ lookup_pc' = "start"
    /\ UNCHANGED <<all_heights, missing_points, geoportal_h, fetch_pc, point_strings,
                   attempt, response, batch_heights, only_failures, finished, readerVars,
                   zoneVars, roleVars, pairVars, dispVars, gridVars, cfgVars>>

(***************************************************************************)
(* config_manager.py.  The configuration file is missing, or holds a JSON  *)
(* object with the settings of some modes, a JSON array, text that is no   *)
(* JSON, bytes that are no UTF-8, or cannot be opened for reading.  A      *)
(* setting is an int, a float (in tenths) or a bool (0 or 1); json.dump    *)
(* writes it as an integer literal, a literal with a fraction, or true or  *)
(* false, and json.load reads the literal back.  A file that could be read *)
(* and parsed can be written.                                              *)
(***************************************************************************)
Modes == {1, 2, 3}

IntValue(n) == [t |-> "int", v |-> n]
FloatValue(tenths) == [t |-> "float", v |-> tenths]
BoolValue(b) == [t |-> "bool", v |-> b]

\* The settings main collects for a mode (settings_to_save).
SettingsSamples ==
    {[round_decimals |-> IntValue(1), swap_input |-> BoolValue(0)],
     [round_decimals |-> IntValue(2), swap_input |-> BoolValue(1),
      geoportal_tolerance |-> FloatValue(2)]}

\* json.dump of a setting
JsonDump(value) ==
    CASE value.t = "int" -> [j |-> "integer", text |-> value.v]
      [] value.t = "float" -> [j |-> "fraction", text |-> value.v]
      [] value.t = "bool" -> [j |-> IF value.v = 1 THEN "true" ELSE "false", text |-> 0]

\* json.load of a literal
JsonLoad(token) ==
    CASE token.j = "integer" -> IntValue(token.text)
      [] token.j = "fraction" -> FloatValue(token.text)
      [] token.j = "true" -> BoolValue(1)
      [] token.j = "false" -> BoolValue(0)

\* json.dump(all_configs, f, indent=4): the object in the file
JsonDumpObject(configs) ==
    [key \in DOMAIN configs |->
        [name \in DOMAIN configs[key] |-> JsonDump(configs[key][name])]]

\* json.load(f) of an object
JsonLoadObject(content) ==
    [key \in DOMAIN content |->
        [name \in DOMAIN content[key] |-> JsonLoad(content[key][name])]]

Dict(items) == [t |-> "dict", v |-> items]
PyList == [t |-> "list", v |-> <<>>]

File(kind, content) == [kind |-> kind, content |-> content]

FileStates ==
    {File(kind, EmptyMap) :
        kind \in {"missing", "array", "malformed", "not_utf8", "no_permission"}}
      \cup
    {File("object", JsonDumpObject(configs)) :
        configs \in UNION {[keys -> SettingsSamples] :
                              keys \in SUBSET {PyStr(mode) : mode \in Modes}}}

\* load_config: {} when the path does not exist; else json.load(f), with
\* JSONDecodeError and FileNotFoundError answered by {}.
load_config(file) ==
    CASE file.kind = "missing" -> Return(Dict(EmptyMap))
      [] file.kind = "object" -> Return(Dict(JsonLoadObject(file.content)))
      [] file.kind = "array" -> Return(PyList)
      [] file.kind = "malformed" -> Return(Dict(EmptyMap))
      [] file.kind = "not_utf8" -> Raise("UnicodeDecodeError")
      [] file.kind = "no_permission" -> Raise("PermissionError")

\* save_config_for_mode: the file afterwards.  An exception of load_config
\* or of all_configs[str(mode)] = settings (a list has no string index) is
\* caught before the file is opened for writing.
save_config_for_mode(mode, settings, file) ==
    LET loaded == load_config(file) IN
    IF loaded.raised # "" THEN file
    ELSE IF loaded.value.t # "dict" THEN file
    ELSE File("object", JsonDumpObject(SetItem(loaded.value.v, PyStr(mode), settings)))

CfgIdle ==
    /\ config_file = File("missing", EmptyMap)
    /\ all_configs = None
    /\ last_saved = [mode \in Modes |-> None]
    /\ latest_save = None

CfgInit ==
    /\ config_file \in FileStates
    /\ all_configs = None
    /\ last_saved = [mode \in Modes |-> None]
    /\ latest_save = None

OutsideCfg == <<zoneVars, roleVars, pairVars, dispVars, fetchVars, gridVars>>

\* main, line 359: all_configs = load_config(config_path)
LoadConfig ==
    /\ all_configs' = Some(load_config(config_file))
    /\ UNCHANGED <<config_file, last_saved, latest_save, OutsideCfg>>

\* main, lines 504-505: save_config_for_mode(choice, settings_to_save, config_path)
SaveConfigForMode ==
    /\ \E mode \in Modes, settings \in SettingsSamples :
          /\ config_file' = save_config_for_mode(mode, settings, config_file)
          /\ last_saved' = [last_saved EXCEPT ![mode] = Some(settings)]
          /\ latest_save' = Some([mode |-> mode, file |-> config_file])
    /\ UNCHANGED <<all_configs, OutsideCfg>>

(***************************************************************************)
(* Specifications, one per component.                                      *)
(***************************************************************************)
InitEpsg ==
    EpsgInit /\ RolesIdle /\ PairIdle /\ DispIdle /\ FetchIdle /\ GridIdle /\ CfgIdle
NextEpsg == CallGetSourceEpsg
SpecEpsg == InitEpsg /\ [][NextEpsg]_vars

InitRoles ==
    RolesInit /\ EpsgIdle /\ PairIdle /\ DispIdle /\ FetchIdle /\ GridIdle /\ CfgIdle
NextRoles == CallAssignGeodeticRoles
SpecRoles == InitRoles /\ [][NextRoles]_vars

InitPair ==
    PairInit /\ EpsgIdle /\ RolesIdle /\ DispIdle /\ FetchIdle /\ GridIdle /\ CfgIdle
NextPair == ProcessPoint \/ SortAndReturn
SpecPair == InitPair /\ [][NextPair]_vars

InitDispatch ==
    DispInit /\ EpsgIdle /\ RolesIdle /\ PairIdle /\ FetchIdle /\ GridIdle /\ CfgIdle
NextDispatch ==
    \/ ChoosePath
    \/ CudaOptimizedPrepare \/ CudaOptimizedBatch \/ CudaOptimizedReturn
    \/ CudaStandardBatch \/ CudaStandardReturn
    \/ PoolTake \/ PoolFinish \/ ImapNext \/ CpuReturn
SpecDispatch == InitDispatch /\ [][NextDispatch]_vars

InitLookup ==
    FetchInit /\ EpsgIdle /\ RolesIdle /\ PairIdle /\ DispIdle /\ GridIdle /\ CfgIdle
NextLookup ==
    \/ SubmitBatches \/ WorkerTake \/ Request \/ Respond
    \/ MergeFirstPass \/ MergeRetry \/ ReadHeights \/ ReadHeightsOnly
SpecLookup == InitLookup /\ [][NextLookup]_vars

InitGrid ==
    GridInit /\ EpsgIdle /\ RolesIdle /\ PairIdle /\ DispIdle /\ FetchIdle /\ CfgIdle
NextGrid == GenerujSiatke \/ PrzetworzSrodek \/ ZwrocWyniki
SpecGrid == InitGrid /\ [][NextGrid]_vars

\* main from the table of results to the table of the selector: the
\* pairing engine holds only the tolerance of the comparison.
InitMain ==
    /\ MainInit
    /\ input_df = <<>>
    /\ comparison_df = None
    /\ max_distance = 0
    /\ results = <<>>
    /\ proc_pc = "idle"
    /\ EpsgIdle /\ RolesIdle /\ DispIdle /\ FetchIdle /\ CfgIdle
NextMain == WywolajSiatke \/ NextGrid
SpecMain == InitMain /\ [][NextMain]_vars

InitConfig ==
    CfgInit /\ EpsgIdle /\ RolesIdle /\ PairIdle /\ DispIdle /\ FetchIdle /\ GridIdle
NextConfig == LoadConfig \/ SaveConfigForMode
SpecConfig == InitConfig /\ [][NextConfig]_vars

\* The thread pool with more batches than threads: as many valid points as
\* fill the pool and leave one batch queued, drawn from the two samples
\* that share a key.
PoolPoints == {<<128, 384>>, <<123, 390>>}
InitPool ==
    /\ transformed_points \in [1..MaxPoolPoints -> {Some(p) : p \in PoolPoints}]
    /\ lookup_pc = "start"
    /\ all_heights = EmptyMap
    /\ missing_points = <<>>
    /\ geoportal_h = <<>>
    /\ fetch_pc = [b \in Calls |-> "unused"]
    /\ point_strings = [b \in Calls |-> <<>>]
    /\ attempt = [b \in Calls |-> 0]
    /\ response = [b \in Calls |-> None]
    /\ batch_heights = [b \in Calls |-> EmptyMap]
    /\ only_failures = [b \in Calls |-> TRUE]
    /\ finished = <<>>
    /\ input_h = <<>>
    /\ diff_h_geoportal = <<>>
    /\ only_h = <<>>
    /\ EpsgIdle /\ RolesIdle /\ PairIdle /\ DispIdle /\ GridIdle /\ CfgIdle
NextPool ==
    \/ SubmitBatches \/ WorkerTake \/ Request \/ Respond
    \/ MergeFirstPass \/ MergeRetry
SpecPool == InitPool /\ [][NextPool]_vars

\* The generator of the lattice alone: no candidates, every triangle with
\* corners on a coarse grid (the degenerate ones included) besides the
\* polygons of the selector, and more spacings.
LatticeCorners == {0, 3, 7, 10} \X {0, 3, 7, 10}
LatticePolygons ==
    Polygons \cup {t \in LatticeCorners \X LatticeCorners \X LatticeCorners :
                      t[1] # t[2] /\ t[1] # t[3] /\ t[2] # t[3]}
LatticeSpacings == {2, 3, 4, 10}
InitLattice ==
    /\ punkty_kandydaci = <<>>
    /\ obszar_wielokat \in LatticePolygons
    /\ odleglosc_siatki \in LatticeSpacings
    /\ lista_srodkow = <<>>
    /\ srodek_nr = 0
    /\ odwiedzone_indeksy_w_np = {}
    /\ wyniki_siatki = <<>>
    /\ results_df = <<>>
    /\ geoportal_tolerance = None
    /\ grid_pc = "start"
    /\ EpsgIdle /\ RolesIdle /\ PairIdle /\ DispIdle /\ FetchIdle /\ CfgIdle
SpecLattice == InitLattice /\ [][NextGrid]_vars

\* The dispatcher followed by the lookup client, on inputs the client's
\* calls can hold, on a machine where the CPU pool or at least one CUDA
\* function works, with every transformer constructible and no reprojection
\* that raises.
InitPipeline ==
    /\ InitDispatch
    /\ Len(points) <= MaxTransformed
    /\ cuda_path # "neither"
    /\ crs_error = {}
    /\ bad_point = 0
NextPipeline ==
    \/ NextDispatch \/ CallLookup
    \/ SubmitBatches \/ WorkerTake \/ Request \/ Respond
    \/ MergeFirstPass \/ MergeRetry
SpecPipeline == InitPipeline /\ [][NextPipeline]_vars

\* process_data on one reference point with a comparison file and the
\* service: the pairing half and the service half of the point's row.
InitDiff ==
    /\ DiffInit /\ FetchInit /\ Len(transformed_points) = 1
    /\ EpsgIdle /\ RolesIdle /\ DispIdle /\ GridIdle /\ CfgIdle
NextDiff == NextPair \/ NextLookup
SpecDiff == InitDiff /\ [][NextDiff]_vars

\* The client on the points of at most one batch.  Every request ends, by
\* its 30 s timeout at the latest, and every thread gets to run: a step of
\* the client that can be taken is taken.
InitOneBatch == InitLookup /\ Len(transformed_points) <= batch_size
NextOneBatch == NextLookup
SpecOneBatchFair == InitOneBatch /\ [][NextOneBatch]_vars /\ WF_vars(NextOneBatch)

(***************************************************************************)
(* Claims.                                                                 *)
(***************************************************************************)
\* The integer part of a finite coordinate, by arithmetic on its tenths.
Trunc(coord) ==
    IF coord.v >= 0 THEN (coord.v - (coord.v % 10)) \div 10
    ELSE -(((-coord.v) - ((-coord.v) % 10)) \div 10)

EastingShape(coord) ==
    /\ coord.kind = "fin"
    /\ Trunc(coord) >= 5000000
    /\ Trunc(coord) <= 8999999

\* C5.  Role assignment: when assign_geodetic_roles returns, every row has
\* northing = x and easting = y if the first row's y has easting shape, else
\* northing = y and easting = x if the first row's x has easting shape, else
\* northing = x and easting = y; the other rows' shapes play no part.
C5_RolesFromFirstRow ==
    roles_pc = "returned" =>
        \A i \in DOMAIN df :
            IF EastingShape(df[1].y) \/ ~EastingShape(df[1].x)
            THEN /\ df[i].geodetic_northing = Some(df[i].x)
                 /\ df[i].geodetic_easting = Some(df[i].y)
            ELSE /\ df[i].geodetic_northing = Some(df[i].y)
                 /\ df[i].geodetic_easting = Some(df[i].x)

\* C5 witness: the first row is in the GIS convention (x is the easting),
\* the second row's y has easting shape, and both rows got northing = y.
C5_Witness ==
    /\ roles_pc = "returned"
    /\ Len(df) = 2
    /\ df[1].x = Fin(75123450) /\ df[1].y = Fin(1234)
    /\ df[2].x = Fin(1234) /\ df[2].y = Fin(75123450)
    /\ df[2].geodetic_northing = Some(df[2].y)
    /\ df[2].geodetic_easting = Some(df[2].x)

\* The distance (squared) from a row's reference point to the nearest
\* comparison point.
NearestDist2(r, cmp) ==
    CHOOSE d \in {Dist2(r.x_odniesienia, r.y_odniesienia, cmp[j].x, cmp[j].y) :
                     j \in DOMAIN cmp} :
        \A k \in DOMAIN cmp :
            d <= Dist2(r.x_odniesienia, r.y_odniesienia, cmp[k].x, cmp[k].y)

\* C2.  Pairing distance bound: with a non-empty comparison set, every row
\* built by process_data has a match when max_distance = 0; when
\* max_distance = m > 0 it has a match if and only if the distance to the
\* nearest comparison point is <= m (equality included); and the match is a
\* comparison point at that nearest distance.
C2_PairingDistanceBound ==
    (comparison_df # None /\ comparison_df # Some(<<>>)) =>
        \A i \in DOMAIN results :
            LET r == results[i]
                cmp == comparison_df[1]
                nd2 == NearestDist2(r, cmp)
            IN  /\ r.pair_columns
                /\ max_distance = 0 => r.match # None
                /\ max_distance > 0 =>
                      (r.match # None <=> nd2 <= max_distance * max_distance)
                /\ r.match # None =>
                      /\ r.match[1].odleglosc_pary2 = nd2
                      /\ \E j \in DOMAIN cmp :
                            /\ cmp[j].id = r.match[1].id_porownania
                            /\ cmp[j].x = r.match[1].x_porownania
                            /\ cmp[j].y = r.match[1].y_porownania
                            /\ cmp[j].h = r.match[1].h_porownania
                            /\ Dist2(r.x_odniesienia, r.y_odniesienia,
                                     cmp[j].x, cmp[j].y) = nd2

\* C2 witness: process_data has returned with max_distance = 2, one
\* reference point matched exactly at distance 2 and another one, whose
\* nearest comparison point is farther than 2, left without a match.
C2_Witness ==
    /\ proc_pc = "returned"
    /\ max_distance = 2
    /\ \E i, k \in DOMAIN results :
          /\ results[i].match # None
          /\ results[i].match[1].odleglosc_pary2 = 4
          /\ results[k].pair_columns
          /\ results[k].match = None

\* C3.  Dispatcher alignment: whenever transform_coordinates_parallel
\* returns, on the optimised CUDA path, the standard CUDA path or the CPU
\* pool and whatever the order in which the workers finished, its list has
\* one entry per input point and the i-th entry is absent or the pair
\* transformed from input point i in that point's zone.
C3_DispatcherAlignment ==
    disp_pc = "returned" =>
        /\ Len(disp_results) = Len(points)
        /\ \A i \in DOMAIN points :
              \/ disp_results[i] = None
              \/ \E z \in Zones :
                    /\ get_source_epsg(points[i].geodetic_easting) = Return(Some(z))
                    /\ disp_results[i] = Some(Transform(z, points[i].geodetic_easting,
                                                     points[i].geodetic_northing))

\* C3 witness: the CPU pool has returned three entries, the first and the
\* third transformed in different zones and the second absent, after the
\* second chunk was finished before the first.
C3_Witness ==
    /\ disp_pc = "returned"
    /\ cuda_path = "cpu"
    /\ Len(points) = 3
    /\ Len(done) = 2 /\ done[1].chunk = 2 /\ done[2].chunk = 1
    /\ disp_results[1] # None /\ disp_results[2] = None /\ disp_results[3] # None
    /\ disp_results[1][1][2] # disp_results[3][1][2]

\* The two decimals of a transformed point: the text of its easting and of
\* its northing printed with two decimals.
SameTwoDecimals(p, q) == Fmt2(p[1]) = Fmt2(q[1]) /\ Fmt2(p[2]) = Fmt2(q[2])

Valid == Range(ValidPoints(transformed_points))

\* C6.  Elevation key format: the key of a transformed point is the text of
\* its northing and then of its easting, each with two decimals; the point
\* strings of every request, the key of the missing-point check and the key
\* process_data looks up are that same key; two points with the same two
\* decimals have the same key, and process_data reads the same height for
\* both.
C6_ElevationKeyFormat ==
    /\ \A p \in Valid :
          /\ lookup_key(p) = <<Fmt2(p[2]), Fmt2(p[1])>>
          /\ reader_lookup_key(p) = lookup_key(p)
          /\ \A q \in Valid :
                SameTwoDecimals(p, q) => reader_lookup_key(p) = lookup_key(q)
    /\ \A b \in Calls :
          fetch_pc[b] \in {"ready", "waiting"} =>
              /\ Len(point_strings[b]) = Len(Dedupe(BatchOf(b)))
              /\ \A i \in DOMAIN point_strings[b] :
                    point_strings[b][i] = lookup_key(Dedupe(BatchOf(b))[i])
    /\ lookup_pc = "read" =>
          \A i, j \in DOMAIN transformed_points :
              /\ transformed_points[i] # None
              /\ transformed_points[j] # None
              /\ SameTwoDecimals(transformed_points[i][1], transformed_points[j][1])
              => geoportal_h[i] = geoportal_h[j]

\* C6 witness: of two points that differ and have the same two decimals
\* only the first got a height from the service, there was no straggler
\* pass, and process_data has read that height for both.
C6_Witness ==
    /\ lookup_pc = "read"
    /\ transformed_points = <<Some(<<128, 384>>), Some(<<123, 390>>)>>
    /\ batch_heights[1] # EmptyMap
    /\ batch_heights[2] = EmptyMap
    /\ fetch_pc[0] = "unused"
    /\ geoportal_h[1] # None
    /\ geoportal_h[1] = geoportal_h[2]

\* A body every height of which the client reads as zero: no line of three
\* parts has a height that is a number other than zero.
AllZeroBody(body) ==
    /\ body # <<>>
    /\ \A i \in DOMAIN body :
          Len(body[i]) = 3 => body[i][3] \notin {"123.45"}

FailureOrEmpty(outcome) == outcome.raised # "" \/ outcome.value = <<>>

\* C7 (state part).  A call has issued at most API_MAX_RETRIES requests, has
\* not raised, and stands before a further request only after a failure, an
\* empty body or an all-zero body.
C7_RetryCap ==
    \A b \in Calls :
        /\ attempt[b] <= 5
        /\ fetch_pc[b] # "raised"
        /\ fetch_pc[b] = "waiting" => attempt[b] >= 1
        /\ (fetch_pc[b] = "ready" /\ attempt[b] >= 1) =>
              /\ response[b] # None
              /\ FailureOrEmpty(response[b][1]) \/ AllZeroBody(response[b][1].value)

CallUnderWay == \E b \in Calls : fetch_pc[b] \in {"ready", "waiting"}

\* C7.  Retry cap and termination: for one batch fetch_height_batch issues
\* at most API_MAX_RETRIES (5) requests, a further request only after a
\* failure, an empty body or an all-zero body, and a call that is under way
\* returns, whatever the service answers.
C7_RetryCapAndTermination ==
    /\ []C7_RetryCap
    /\ CallUnderWay ~> ~CallUnderWay

\* C7 witness: a call has returned after its fifth request, which followed
\* a failure, an empty body or an all-zero body.
C7_Witness ==
    \E b \in Calls :
        /\ fetch_pc[b] = "returned"
        /\ attempt[b] = 5
        /\ response[b] # None
        /\ response[b][1].raised = ""
        /\ AllZeroBody(response[b][1].value)

\* The keys of the lines of three parts, and the height of the last line
\* with a key.
BodyKeys(body) == {<<body[i][1], body[i][2]>> : i \in {j \in DOMAIN body : Len(body[j]) = 3}}
LastHeight(body, key) ==
    LET i == CHOOSE j \in DOMAIN body :
                /\ Len(body[j]) = 3 /\ <<body[j][1], body[j][2]>> = key
                /\ \A k \in DOMAIN body :
                      (Len(body[k]) = 3 /\ <<body[k][1], body[k][2]>> = key) => k <= j
    IN  IF body[i][3] = "123.45" THEN 12345 ELSE 0
IsResultOf(heights, body) ==
    /\ DOMAIN heights = BodyKeys(body)
    /\ \A key \in BodyKeys(body) : heights[key] = LastHeight(body, key)

WellFormedAllZero(body) ==
    /\ body # <<>>
    /\ \A i \in DOMAIN body : Len(body[i]) = 3 /\ body[i][3] = "0.00"

HasNonZero(body) == \E i \in DOMAIN body : Len(body[i]) = 3 /\ body[i][3] = "123.45"

\* C8.  All-zero policy: after a well-formed body whose heights are all
\* zero the call stands before another request on every attempt before the
\* last, and on the last attempt it has returned that body's map; after a
\* body with a height that is not zero it has returned that body's map, on
\* whatever attempt.
C8_AllZeroPolicy ==
    \A b \in Calls :
        (response[b] # None /\ response[b][1].raised = "") =>
            LET body == response[b][1].value IN
            /\ WellFormedAllZero(body) =>
                  IF attempt[b] < 5
                  THEN fetch_pc[b] = "ready"
                  ELSE fetch_pc[b] = "returned" /\ IsResultOf(batch_heights[b], body)
            /\ HasNonZero(body) =>
                  fetch_pc[b] = "returned" /\ IsResultOf(batch_heights[b], body)

\* C8 witness: a call on two points has returned, on its last attempt, the
\* map of a well-formed body whose heights are all zero.
C8_Witness ==
    \E b \in Calls :
        /\ fetch_pc[b] = "returned"
        /\ attempt[b] = 5
        /\ response[b] # None
        /\ response[b][1].raised = ""
        /\ WellFormedAllZero(response[b][1].value)
        /\ Cardinality(DOMAIN batch_heights[b]) = 2
        /\ \A key \in DOMAIN batch_heights[b] : batch_heights[b][key] = 0

\* C9.  Retry exhaustion degrades to no data: a call every request of which
\* ended in a failure or an empty body has returned the empty map and has
\* not raised; get_geoportal_heights_concurrent does not raise, and the map
\* it returns holds every key the other calls returned.
C9_ExhaustionGivesNoData ==
    /\ lookup_pc # "raised"
    /\ \A b \in Calls :
          /\ fetch_pc[b] # "raised"
          /\ (only_failures[b] /\ fetch_pc[b] = "returned") =>
                batch_heights[b] = EmptyMap
          /\ (only_failures[b] /\ fetch_pc[b] = "ready") => attempt[b] < 5
    /\ lookup_pc \in {"returned", "read"} =>
          \A c \in Calls : DOMAIN batch_heights[c] \subseteq DOMAIN all_heights

\* C9 witness: get_geoportal_heights_concurrent has returned a map that is
\* not empty after every request of the first batch failed or came back
\* empty, the second batch having returned a height.
C9_Witness ==
    /\ lookup_pc = "returned"
    /\ fetch_pc[1] = "returned" /\ only_failures[1]
    /\ fetch_pc[2] = "returned" /\ batch_heights[2] # EmptyMap
    /\ DOMAIN batch_heights[2] \subseteq DOMAIN all_heights

\* C10.  Straggler pass: the call on the missing points starts only after
\* every first-pass call has returned; its points are exactly the valid
\* points whose lookup key is not in the merged map, and there is no such
\* call when no point is missing; once the caller has merged its result no
\* call is under way and none starts; the returned map holds the recovered
\* entries.
C10_StragglerPass ==
    /\ fetch_pc[0] # "unused" =>
          /\ \A b \in FirstPass : fetch_pc[b] = "returned"
          /\ missing_points # <<>>
    /\ lookup_pc = "retry" =>
          /\ Range(missing_points) =
                {p \in Valid : <<Fmt2(p[2]), Fmt2(p[1])>> \notin DOMAIN all_heights}
          /\ fetch_pc[0] \in {"ready", "waiting"} =>
                Range(point_strings[0]) =
                    {<<Fmt2(p[2]), Fmt2(p[1])>> : p \in Range(missing_points)}
    /\ lookup_pc \in {"returned", "read"} =>
          /\ \A b \in Calls : fetch_pc[b] \in {"unused", "returned"}
          /\ missing_points = <<>> => fetch_pc[0] = "unused"
          /\ \A key \in DOMAIN batch_heights[0] :
                key \in DOMAIN all_heights /\ all_heights[key] = batch_heights[0][key]

\* C10 witness: the first pass left one of two valid points without a
\* height, the straggler pass asked for that one and recovered it, and the
\* caller has returned the heights of both.
C10_Witness ==
    /\ lookup_pc = "returned"
    /\ fetch_pc[0] = "returned"
    /\ Len(ValidPoints(transformed_points)) = 2
    /\ Len(missing_points) = 1
    /\ \A p \in Range(missing_points) : lookup_key(p) \in DOMAIN batch_heights[0]
    /\ Cardinality(DOMAIN all_heights) = 2

\* The rows of punkty_np claimed so far are those of the chosen rows.
ChosenLabels == {wyniki_siatki[i].label : i \in DOMAIN wyniki_siatki}

\* C1.  Grid exclusivity: no candidate is chosen for two centres: the rows
\* chosen so far are pairwise different candidates, each centre processed
\* has chosen at most one, and the claimed rows of punkty_np are exactly the
\* chosen ones, so that a row once chosen is not chosen by a later centre.
C1_GridExclusivity ==
    /\ \A i, j \in DOMAIN wyniki_siatki :
          i # j => wyniki_siatki[i].label # wyniki_siatki[j].label
    /\ Len(wyniki_siatki) <= srodek_nr
    /\ {dane_punktow(punkty_kandydaci)[idx].label : idx \in odwiedzone_indeksy_w_np}
          = ChosenLabels
    /\ Cardinality(odwiedzone_indeksy_w_np) = Len(wyniki_siatki)

\* C1 witness: a candidate within d/2 of two centres was chosen by the
\* first, and the second has chosen another candidate; the call has
\* returned two rows.
C1_Witness ==
    /\ grid_pc = "returned"
    /\ Len(wyniki_siatki) = 2
    /\ Len(lista_srodkow) >= 2
    /\ LET punkty_np == dane_punktow(punkty_kandydaci) IN
       \E idx \in DOMAIN punkty_np :
          /\ punkty_np[idx] = wyniki_siatki[1]
          /\ idx \in query_ball_point(punkty_np, obszar_wielokat, odleglosc_siatki,
                                      lista_srodkow[1])
          /\ idx \in query_ball_point(punkty_np, obszar_wielokat, odleglosc_siatki,
                                      lista_srodkow[2])
          /\ punkty_np[idx].label # idx

\* The canonical key of a transformed point (easting, northing): the text of
\* the northing, then of the easting, each with two decimals.
CanonicalKey(p) == <<Fmt2(p[2]), Fmt2(p[1])>>

\* Row i has no height in the returned map: its transformed point is absent
\* or the point's key is not in the map.
NoData(i) ==
    \/ transformed_points[i] = None
    \/ CanonicalKey(transformed_points[i][1]) \notin DOMAIN all_heights

\* C11.  Missing key means no data: after the lookup has returned, both
\* readers build one row per point; a row whose transformed point is absent
\* or whose key is not in the map has "brak_danych" as its service height
\* (and, in process_data, as its service height difference); every other row
\* has the height the map holds under its key, and a difference when the row
\* has a height of its own.
C11_MissingKeyMeansNoData ==
    /\ lookup_pc = "read" =>
          /\ Len(geoportal_h) = Len(transformed_points)
          /\ Len(diff_h_geoportal) = Len(transformed_points)
          /\ \A i \in DOMAIN transformed_points :
                IF NoData(i)
                THEN geoportal_h[i] = None /\ diff_h_geoportal[i] = None
                ELSE /\ geoportal_h[i] =
                           Some(all_heights[CanonicalKey(transformed_points[i][1])])
                     /\ input_h[i] # None => diff_h_geoportal[i] # None
    /\ lookup_pc = "read_only" =>
          /\ Len(only_h) = Len(transformed_points)
          /\ \A i \in DOMAIN transformed_points :
                IF NoData(i) THEN only_h[i] = None
                ELSE only_h[i] = Some(all_heights[CanonicalKey(transformed_points[i][1])])

\* C11 witness: process_data has built two rows; the first point was
\* transformed and asked for, its key is not in the returned map and its row
\* has no service height and no difference; the second row has both.
C11_Witness ==
    /\ lookup_pc = "read"
    /\ Len(transformed_points) = 2
    /\ transformed_points[1] # None
    /\ CanonicalKey(transformed_points[1][1]) \notin DOMAIN all_heights
    /\ fetch_pc[0] = "returned"
    /\ geoportal_h[1] = None /\ diff_h_geoportal[1] = None
    /\ geoportal_h[2] # None /\ diff_h_geoportal[2] # None

\* The zones that occur in the input of the dispatcher.
ZonesOfInput ==
    {z \in Zones : \E i \in DOMAIN points :
        get_source_epsg(points[i].geodetic_easting) = Return(Some(z))}

\* C12.  One transformer per zone: when transform_coordinates_parallel
\* returns, Transformer.from_crs has been called exactly once for each zone
\* that occurs in the input and never for another zone, however many points
\* the zone has.
C12_OneTransformerPerZone ==
    disp_pc = "returned" =>
        \A z \in Zones : constructed[z] = IF z \in ZonesOfInput THEN 1 ELSE 0

\* The zone of input point i, absent when it cannot be resolved or the
\* lookup raises.
ZoneOfPoint(i) ==
    LET z == get_source_epsg(points[i].geodetic_easting) IN
    IF z.raised # "" THEN None ELSE z.value

\* No point fails by itself: every easting has an integer form or is nan,
\* and no reprojection raises.
OnlyConstructionFails ==
    /\ bad_point = 0
    /\ \A i \in DOMAIN points : get_source_epsg(points[i].geodetic_easting).raised = ""

\* C13.  Zone failure policy: when the transformer of a zone cannot be
\* constructed, every point of that zone is absent in the returned list,
\* every point of a zone whose transformer was constructed is transformed
\* (unless its own reprojection fails), and the construction failure does not
\* abort the run: a run in which nothing but construction fails does not
\* raise.
C13_ZoneFailurePolicy ==
    /\ disp_pc = "returned" =>
          \A i \in DOMAIN points :
              /\ (ZoneOfPoint(i) # None /\ ZoneOfPoint(i)[1] \in crs_error)
                    => disp_results[i] = None
              /\ (ZoneOfPoint(i) # None /\ ZoneOfPoint(i)[1] \notin crs_error
                    /\ i # bad_point)
                    => disp_results[i] =
                          Some(Transform(ZoneOfPoint(i)[1], points[i].geodetic_easting,
                                         points[i].geodetic_northing))
    /\ OnlyConstructionFails => disp_pc # "raised"

\* C13 witness: the transformer of zone 2177 could not be constructed and
\* the run has returned three entries: the two points of zone 2177 absent,
\* the point of zone 2178 between them transformed.
C13_Witness ==
    /\ disp_pc = "returned"
    /\ crs_error = {2177}
    /\ Len(points) = 3
    /\ ZoneOfPoint(1) = Some(2177) /\ disp_results[1] = None
    /\ ZoneOfPoint(2) = Some(2178) /\ disp_results[2] # None
    /\ ZoneOfPoint(3) = Some(2177) /\ disp_results[3] = None

\* get_source_epsg finds no zone for the easting of input point i.
Unresolved(i) == get_source_epsg(points[i].geodetic_easting) = Return(None)

PointsOfZone(z) == {i \in DOMAIN points : ZoneOfPoint(i) = Some(z)}

\* C14.  Absent zone gives absent slot: a point whose zone cannot be
\* resolved has an absent entry at its own position in the list the
\* dispatcher returns; no transformer is constructed for it (a zone is
\* constructed only if a point resolves to it, and no more often than it has
\* points); and it is not sent to the service: its entry handed to the
\* lookup client is absent, every point string of every request is the key
\* of a point that was transformed, and no request is made when no point
\* was.
C14_AbsentZoneAbsentSlot ==
    /\ disp_pc = "returned" =>
          /\ Len(disp_results) = Len(points)
          /\ \A i \in DOMAIN points : Unresolved(i) => disp_results[i] = None
          /\ \A z \in Zones : constructed[z] <= Cardinality(PointsOfZone(z))
    /\ \A z \in Zones : constructed[z] > 0 => PointsOfZone(z) # {}
    /\ lookup_pc # "idle" =>
          /\ Len(transformed_points) = Len(points)
          /\ \A i \in DOMAIN points : Unresolved(i) => transformed_points[i] = None
          /\ \A b \in Calls :
                /\ Range(point_strings[b]) \subseteq
                      {CanonicalKey(transformed_points[i][1]) :
                          i \in {k \in DOMAIN points : ~Unresolved(k)
                                                       /\ transformed_points[k] # None}}
                /\ (\A i \in DOMAIN points : Unresolved(i)) => fetch_pc[b] = "unused"

\* C14 witness: of two points the first has a 6-digit easting and no zone;
\* its entry is absent, one transformer was constructed, for the zone of the
\* second point, and the one request made holds the second point alone.
C14_Witness ==
    /\ Len(points) = 2
    /\ Unresolved(1)
    /\ ZoneOfPoint(2) = Some(2178)
    /\ disp_results = <<None, Some(Transform(2178, points[2].geodetic_easting,
                                             points[2].geodetic_northing))>>
    /\ constructed[2178] = 1
    /\ fetch_pc[1] = "waiting"
    /\ point_strings[1] = <<CanonicalKey(transformed_points[2][1])>>

\* d is the number D/den rounded to one decimal as Python's round does it:
\* the nearest tenth, the even one of two equally near, with the sign of D,
\* and without a sign when it is zero.
IsRoundedDifference(D, den, d) ==
    /\ 2 * Abs(den * d.mag - 10 * Abs(D)) <= den
    /\ 2 * Abs(den * d.mag - 10 * Abs(D)) = den => d.mag % 2 = 0
    /\ d.neg = (D < 0 /\ d.mag # 0)

\* C15.  Signed height difference: the row of every accepted match has
\* diff_h = height of the reference point minus height of the comparison
\* point, rounded to round_decimals (1) decimals, and 0.0 where that is
\* negative zero; heights 10.0 and 10.5 give -0.5; diff_h_geoportal is the
\* same of the reference height minus the service height.
C15_SignedHeightDifference ==
    /\ \A i \in DOMAIN results :
          results[i].match # None =>
              LET h_ref == results[i].h_odniesienia
                  h_cmp == results[i].match[1].h_porownania
              IN  /\ results[i].diff_h # None
                  /\ IsRoundedDifference(h_ref[1] - h_cmp[1], 32, results[i].diff_h[1])
                  /\ (h_ref = Some(320) /\ h_cmp = Some(336)) =>
                        results[i].diff_h = Some([neg |-> TRUE, mag |-> 5])
    /\ lookup_pc = "read" =>
          \A i \in DOMAIN transformed_points :
              (input_h[i] # None /\ geoportal_h[i] # None) =>
                  /\ diff_h_geoportal[i] # None
                  /\ IsRoundedDifference(input_h[i][1] - geoportal_h[i][1], 100,
                                         diff_h_geoportal[i][1])

\* C15 witness: the reference point of height 10.0 was matched with a
\* comparison point of height 10.03125 and has diff_h = 0.0; its height
\* 123.25 against the service height 123.45 has diff_h_geoportal = -0.2.
C15_Witness ==
    /\ proc_pc = "returned"
    /\ results[1].match # None
    /\ results[1].h_odniesienia = Some(320)
    /\ results[1].match[1].h_porownania = Some(321)
    /\ results[1].diff_h = Some([neg |-> FALSE, mag |-> 0])
    /\ lookup_pc = "read"
    /\ input_h[1] = Some(12325)
    /\ geoportal_h[1] = Some(12345)
    /\ diff_h_geoportal[1] = Some([neg |-> TRUE, mag |-> 2])

\* The candidates that carry two heights, by their labels, and the pair a
\* candidate is judged by at a centre: the absolute difference of its two
\* heights and its distance to the centre (compared by its square).
TwoHeightCandidates == {i \in DOMAIN punkty_kandydaci : punkty_kandydaci[i].geoportal_h # None}
Discrepancy(i) ==
    Abs(punkty_kandydaci[i].h_odniesienia - punkty_kandydaci[i].geoportal_h[1])
WithinHalfSpacing(i, c) ==
    GeSqrt3(odleglosc_siatki * odleglosc_siatki
                - Dist2A(punkty_kandydaci, i, obszar_wielokat, odleglosc_siatki, c),
            -Dist2B(punkty_kandydaci, i, obszar_wielokat, odleglosc_siatki, c))
NotFarther(i, j, c) ==
    GeSqrt3(Dist2A(punkty_kandydaci, j, obszar_wielokat, odleglosc_siatki, c)
                - Dist2A(punkty_kandydaci, i, obszar_wielokat, odleglosc_siatki, c),
            Dist2B(punkty_kandydaci, j, obszar_wielokat, odleglosc_siatki, c)
                - Dist2B(punkty_kandydaci, i, obszar_wielokat, odleglosc_siatki, c))
PairNotGreater(i, j, c) ==
    \/ Discrepancy(i) < Discrepancy(j)
    \/ Discrepancy(i) = Discrepancy(j) /\ NotFarther(i, j, c)

\* The candidates a centre may choose from: within d/2 of it and not chosen
\* by an earlier centre.
Eligible(c) ==
    {i \in TwoHeightCandidates : WithinHalfSpacing(i, c) /\ i \notin ChosenLabels}

\* C16.  Winner rule: every step of the loop over the centres appends
\* nothing when the centre has no candidate within d/2 that is unclaimed,
\* and otherwise appends exactly one such candidate, whose pair (absolute
\* difference of its two heights, distance to the centre) is not greater
\* than that of any other such candidate.
C16_WinnerRule ==
    [][ (grid_pc = "loop" /\ srodek_nr' = srodek_nr + 1) =>
          LET c == lista_srodkow[srodek_nr + 1] IN
          IF Eligible(c) = {} THEN wyniki_siatki' = wyniki_siatki
          ELSE \E i \in Eligible(c) :
                  /\ wyniki_siatki' = Append(wyniki_siatki, punkty_kandydaci[i])
                  /\ \A j \in Eligible(c) : PairNotGreater(i, j, c) ]_vars

\* C16 witness: the first centre has chosen a candidate although another
\* candidate with two heights is within d/2 of it and nearer to it: the
\* chosen one has the smaller difference of heights.
C16_Witness ==
    /\ grid_pc = "loop"
    /\ srodek_nr = 1
    /\ Len(wyniki_siatki) = 1
    /\ \E j \in TwoHeightCandidates :
          /\ j # wyniki_siatki[1].label
          /\ WithinHalfSpacing(j, lista_srodkow[1])
          /\ Discrepancy(wyniki_siatki[1].label) < Discrepancy(j)
          /\ ~NotFarther(wyniki_siatki[1].label, j, lista_srodkow[1])

\* Centre k of the list lies before centre l in ascending (y, then x) order.
\* y is min_y + b * d * sqrt(3)/2 and x is min_x + a * d / 2.
BeforeInYThenX(k, l) ==
    \/ CentreY1(obszar_wielokat, odleglosc_siatki, lista_srodkow[k])
          < CentreY1(obszar_wielokat, odleglosc_siatki, lista_srodkow[l])
    \/ /\ CentreY1(obszar_wielokat, odleglosc_siatki, lista_srodkow[k])
            = CentreY1(obszar_wielokat, odleglosc_siatki, lista_srodkow[l])
       /\ CentreX2(obszar_wielokat, odleglosc_siatki, lista_srodkow[k])
            < CentreX2(obszar_wielokat, odleglosc_siatki, lista_srodkow[l])

\* The candidates with the least pair at a centre among those within d/2,
\* claimed or not.
BestOfCentre(c) ==
    {i \in TwoHeightCandidates :
        /\ WithinHalfSpacing(i, c)
        /\ \A j \in TwoHeightCandidates : WithinHalfSpacing(j, c) => PairNotGreater(i, j, c)}

\* C17.  Centre order decides conflicts: the centres are visited one after
\* the other in ascending (y, then x) order; the output is only ever
\* extended at its end, by one point for a centre that has an unclaimed
\* candidate and by none otherwise, so the winners stand in the order of
\* their centres; a point already given to an earlier centre stays there,
\* and a later centre whose best candidates are all claimed takes one of
\* the unclaimed candidates within its d/2.
C17_CentreOrderDecidesConflicts ==
    /\ [](\A k, l \in DOMAIN lista_srodkow : k < l => BeforeInYThenX(k, l))
    /\ [](\A m, n \in DOMAIN wyniki_siatki :
              m # n => wyniki_siatki[m].label # wyniki_siatki[n].label)
    /\ [][ (grid_pc = "loop" /\ srodek_nr' # srodek_nr) =>
             LET c == lista_srodkow[srodek_nr + 1] IN
             /\ srodek_nr' = srodek_nr + 1
             /\ Len(wyniki_siatki') = Len(wyniki_siatki) + (IF Eligible(c) = {} THEN 0 ELSE 1)
             /\ SubSeq(wyniki_siatki', 1, Len(wyniki_siatki)) = wyniki_siatki
             /\ Eligible(c) # {} =>
                   /\ wyniki_siatki'[Len(wyniki_siatki')].label \in Eligible(c)
                   /\ wyniki_siatki'[Len(wyniki_siatki')].label \notin ChosenLabels ]_vars

\* C17 witness: the second centre of the list has chosen, and the point the
\* first centre took is within d/2 of the second as well and has a smaller
\* pair there than the point the second centre got.
C17_Witness ==
    /\ grid_pc = "loop"
    /\ srodek_nr = 2
    /\ Len(wyniki_siatki) = 2
    /\ WithinHalfSpacing(wyniki_siatki[1].label, lista_srodkow[1])
    /\ wyniki_siatki[1].label \in BestOfCentre(lista_srodkow[2])
    /\ wyniki_siatki[2].label \notin BestOfCentre(lista_srodkow[2])

\* The batch requests in flight: the calls of fetch_height_batch that are
\* inside requests.get.
InFlight == {b \in Calls : fetch_pc[b] = "waiting"}

\* C18.  Bounded request concurrency: at every moment of a run of
\* get_geoportal_heights_concurrent at most CONCURRENT_API_REQUESTS batch
\* requests are in flight, however many batches were submitted.
C18_BoundedRequestConcurrency == Cardinality(InFlight) <= CONCURRENT_API_REQUESTS

\* C18 witness: as many requests are in flight as the limit allows while a
\* further batch is still waiting for a thread.
C18_Witness ==
    /\ lookup_pc = "pool"
    /\ Cardinality(InFlight) = CONCURRENT_API_REQUESTS
    /\ \E b \in FirstPass : fetch_pc[b] = "queued"

\* Input point i fails by itself: its easting has no integer form that
\* get_source_epsg can take, or its reprojection raises.
PointFails(i) ==
    \/ get_source_epsg(points[i].geodetic_easting).raised # ""
    \/ i = bad_point

\* C19.  No abort on a single point: the dispatcher never raises; in the
\* list it returns the entry of a point that failed by itself is absent and
\* the entry of every other point of a zone with a transformer is its
\* transformed pair.
C19_NoAbortOnSinglePoint ==
    /\ disp_pc # "raised"
    /\ disp_pc = "returned" =>
          /\ Len(disp_results) = Len(points)
          /\ \A i \in DOMAIN points :
                IF PointFails(i) THEN disp_results[i] = None
                ELSE (ZoneOfPoint(i) # None /\ ZoneOfPoint(i)[1] \notin crs_error)
                        => disp_results[i] =
                              Some(Transform(ZoneOfPoint(i)[1], points[i].geodetic_easting,
                                             points[i].geodetic_northing))

\* The canonical keys of the points the lookup was asked for.
RequestedKeys ==
    {CanonicalKey(transformed_points[i][1]) :
        i \in {k \in DOMAIN transformed_points : transformed_points[k] # None}}

\* C20.  Canonical map keys: every key of the map that
\* get_geoportal_heights_concurrent returns is the canonical two-decimal
\* "northing easting" key of a requested point, whatever coordinate text the
\* responses echoed.
C20_CanonicalMapKeys ==
    lookup_pc = "returned" => DOMAIN all_heights \subseteq RequestedKeys

\* No centre of the list has a candidate with two heights within d/2.
NoCentreHasCandidate ==
    \A k \in DOMAIN lista_srodkow :
        \A i \in TwoHeightCandidates : ~WithinHalfSpacing(i, lista_srodkow[k])

\* C21.  Empty cell is skipped: a loop step at a centre that has no
\* unclaimed candidate within d/2 leaves the result and the claimed set as
\* they are and goes on to the next centre; the selector ends in no other
\* way than by returning; and what it returns is empty when no centre lies
\* in the polygon or no centre has a candidate in range.
C21_EmptyCellSkipped ==
    /\ [][ (grid_pc = "loop" /\ srodek_nr' # srodek_nr
               /\ Eligible(lista_srodkow[srodek_nr + 1]) = {}) =>
              /\ wyniki_siatki' = wyniki_siatki
              /\ odwiedzone_indeksy_w_np' = odwiedzone_indeksy_w_np
              /\ srodek_nr' = srodek_nr + 1
              /\ grid_pc' = "loop" ]_vars
    /\ [](grid_pc \in {"start", "loop", "returned"})
    /\ []((grid_pc = "returned" /\ (lista_srodkow = <<>> \/ NoCentreHasCandidate))
             => wyniki_siatki = <<>>)

\* C21 witness: the second centre was skipped although a candidate lies
\* within its d/2: the first centre, which has it in range too, took it.
C21_Witness ==
    /\ grid_pc = "loop"
    /\ srodek_nr = 2
    /\ Len(wyniki_siatki) = 1
    /\ Cardinality(odwiedzone_indeksy_w_np) = 1
    /\ WithinHalfSpacing(wyniki_siatki[1].label, lista_srodkow[1])
    /\ WithinHalfSpacing(wyniki_siatki[1].label, lista_srodkow[2])

\* C22.  Request size bound: the list of every request, of the first pass
\* and of the straggler pass alike, holds at most batch_size point strings.
C22_RequestSizeBound ==
    \A b \in Calls : fetch_pc[b] = "waiting" => Len(point_strings[b]) <= batch_size

\* The non-absent transformed points in input order, and the calls of the
\* first pass that were submitted with their batches one after the other.
NonAbsentPoints ==
    LET order == SeqOfSet({i \in DOMAIN transformed_points : transformed_points[i] # None})
    IN  [k \in DOMAIN order |-> transformed_points[order[k]][1]]
SubmittedCalls == {b \in Calls \ {0} : fetch_pc[b] # "unused"}
RECURSIVE BatchesUpTo(_)
BatchesUpTo(n) == IF n = 0 THEN <<>> ELSE BatchesUpTo(n - 1) \o BatchOf(n)

Square10 == <<<<0, 0>>, <<10, 0>>, <<10, 10>>, <<0, 10>>>>

\* C24.  Lattice generation: once the centres are generated, every centre
\* of the list passes the point-in-polygon test of the polygon; it is the
\* point of row b >= 0 and half-column a of the lattice anchored at the
\* minimum of the bounding box (y = min_y + b*d*sqrt(3)/2, x = min_x +
\* a*d/2), on a whole column (a even, a >= 0) in an even row and shifted
\* by d/2 (a odd, a >= -1) in an odd row; the list is strictly ascending by
\* y, then x; and for the square of side 10 with d = 10 it is not empty.
C24_LatticeGeneration ==
    grid_pc # "start" /\ grid_pc # "idle" =>
        /\ \A k \in DOMAIN lista_srodkow :
              LET c == lista_srodkow[k] IN
              /\ contains_points(obszar_wielokat, odleglosc_siatki, c)
              /\ c.b >= 0
              /\ c.b % 2 = 0 => (c.a % 2 = 0 /\ c.a >= 0)
              /\ c.b % 2 = 1 => (c.a % 2 = 1 /\ c.a >= -1)
        /\ \A k, l \in DOMAIN lista_srodkow :
              k < l => (\/ lista_srodkow[k].b < lista_srodkow[l].b
                        \/ /\ lista_srodkow[k].b = lista_srodkow[l].b
                           /\ lista_srodkow[k].a < lista_srodkow[l].a)
        /\ (obszar_wielokat = Square10 /\ odleglosc_siatki = 10) => lista_srodkow # <<>>

\* C24 witness: the centres of the square of side 10 with d = 4 are
\* generated and lie in an even and in an odd row, several to a row.
C24_Witness ==
    /\ grid_pc = "loop"
    /\ obszar_wielokat = Square10
    /\ odleglosc_siatki = 4
    /\ \E k, l, m \in DOMAIN lista_srodkow :
          /\ lista_srodkow[k].b % 2 = 0
          /\ lista_srodkow[l].b % 2 = 1
          /\ m # l /\ lista_srodkow[m].b = lista_srodkow[l].b

ReciprocalMatch(r) ==
    \A k \in DOMAIN input_df :
        Dist2(input_df[k].x, input_df[k].y,
              r.match[1].x_porownania, r.match[1].y_porownania)
            >= r.match[1].odleglosc_pary2

\* C26 as claimed, with reciprocity in force: every match the engine
\* accepts is reciprocal.
C26_ReciprocityMode ==
    \A i \in DOMAIN results :
        results[i].match # None => ReciprocalMatch(results[i])

\* C26.  Amended: the engine has no reciprocity mode; with a non-empty
\* comparison set a reference point has a match exactly when max_distance
\* is 0 or its nearest comparison point is within max_distance, whether or
\* not that comparison point has a nearer reference point.
C26_OnlyDistanceBoundApplies ==
    (comparison_df # None /\ comparison_df # Some(<<>>)) =>
        \A i \in DOMAIN results :
            (results[i].match # None) <=>
                (\/ max_distance = 0
                 \/ NearestDist2(results[i], comparison_df[1])
                        <= max_distance * max_distance)

\* C26 witness: process_data has returned with a bound of 1 and a row whose
\* match, at distance 1, is not reciprocal: another reference point lies on
\* the matched comparison point.
C26_Witness ==
    /\ proc_pc = "returned"
    /\ max_distance = 1
    /\ \E i \in DOMAIN results :
          /\ results[i].match # None
          /\ results[i].match[1].odleglosc_pary2 = 1
          /\ ~ReciprocalMatch(results[i])


\* The first-pass batches that returned a height for a key.
BatchesWithKey(k) == {b \in FirstPass : k \in DOMAIN batch_heights[b]}

\* The map in which every key has the value of the last batch, in batch
\* order, that returned it.
LastBatchWins ==
    [k \in UNION {DOMAIN batch_heights[b] : b \in FirstPass} |->
        LET last == CHOOSE b \in BatchesWithKey(k) : \A c \in BatchesWithKey(k) : c <= b
        IN  batch_heights[last][k]]

\* C27.  Merge is independent of completion order: once the first pass is
\* merged, the map is determined by what each batch returned, whatever the
\* order the batch requests ended in: every key has the value of the last
\* batch in batch order that returned it (the straggler pass, when there is
\* one, is merged over that).
C27_MergeInBatchOrder ==
    /\ lookup_pc = "retry" => all_heights = LastBatchWins
    /\ (lookup_pc = "returned" /\ ValidPoints(transformed_points) # <<>>) =>
          all_heights = IF fetch_pc[0] = "returned"
                        THEN Update(LastBatchWins, batch_heights[0])
                        ELSE LastBatchWins

\* C27 witness: batch 2 ended first and batch 1 last; batches 1 and 3
\* returned different heights for the same key, and the merged map has the
\* height of batch 3.
C27_Witness ==
    /\ lookup_pc = "returned"
    /\ fetch_pc[0] = "unused"
    /\ finished = <<2, 3, 1>>
    /\ \E k \in DOMAIN batch_heights[1] \cap DOMAIN batch_heights[3] :
          /\ batch_heights[1][k] = 12345
          /\ batch_heights[3][k] = 0
          /\ all_heights[k] = 0


\* The difference of a row to the height of the service is a number within
\* the tolerance of the service.
WithinServiceTolerance(row) ==
    /\ geoportal_tolerance # None
    /\ row.diff_h_geoportal # None
    /\ row.diff_h_geoportal[1].mag <= geoportal_tolerance[1]

\* The difference of a row to its match is a number within the tolerance of
\* the comparison, and no tolerance of the service is configured.
WithinComparisonTolerance(row) ==
    /\ geoportal_tolerance = None
    /\ comparison_tolerance # None
    /\ "diff_h" \in DOMAIN row
    /\ row.diff_h # None
    /\ row.diff_h[1].mag <= comparison_tolerance[1]

\* The difference a row would be classified on is no number.
NoDataDifference(row) ==
    IF geoportal_tolerance # None THEN row.diff_h_geoportal = None
    ELSE "diff_h" \notin DOMAIN row \/ row.diff_h = None

\* C28.  Grid input is accuracy-qualified: every row the selector returns
\* is a row of the result table classified "Tak"; a row is classified "Tak"
\* only if its difference is a number whose absolute value is at most the
\* configured tolerance; a row whose difference is no number has no
\* classification and is never returned by the selector, and neither is a
\* row without a height of the service.
C28_GridInputQualified ==
    /\ \A k \in DOMAIN wyniki_siatki :
          \E i \in DOMAIN results_df :
              /\ results_df[i] = wyniki_siatki[k]
              /\ results_df[i].osiaga_dokladnosc = Some("Tak")
    /\ \A i \in DOMAIN results_df :
          LET row == results_df[i] IN
          /\ row.osiaga_dokladnosc = Some("Tak") =>
                WithinServiceTolerance(row) \/ WithinComparisonTolerance(row)
          /\ NoDataDifference(row) =>
                /\ row.osiaga_dokladnosc = None
                /\ \A k \in DOMAIN wyniki_siatki : wyniki_siatki[k].label # row.label
          /\ row.diff_h_geoportal = None =>
                \A k \in DOMAIN wyniki_siatki : wyniki_siatki[k].label # row.label

\* C28 witness: the selector has returned one row, classified "Tak" on a
\* difference of 0.25 m that rounds to the tolerance 0.2, while the other
\* row of the table, at the same position, is classified "Nie".
C28_Witness ==
    /\ grid_pc = "returned"
    /\ geoportal_tolerance = Some(2)
    /\ Len(results_df) = 2
    /\ Len(wyniki_siatki) = 1
    /\ wyniki_siatki[1].geoportal_h = Some(10025)
    /\ \E i \in DOMAIN results_df :
          /\ results_df[i].osiaga_dokladnosc = Some("Nie")
          /\ results_df[i].x2 = wyniki_siatki[1].x2
          /\ results_df[i].y0 = wyniki_siatki[1].y0


\* all_configs.get(str(choice)) on what load_config returns for a file.
StoredSettings(file, mode) ==
    LET loaded == load_config(file) IN
    IF /\ loaded.raised = ""
       /\ loaded.value.t = "dict"
       /\ PyStr(mode) \in DOMAIN loaded.value.v
    THEN Some(loaded.value.v[PyStr(mode)])
    ELSE None

\* C29.  Saving settings for one mode keeps the others: after any sequence
\* of save_config_for_mode calls the stored settings of a mode are those of
\* the last save for that mode; the latest save left the stored settings of
\* every other mode as they were; and load_config returns an empty
\* configuration when the file is missing or unreadable.
C29_SaveKeepsOtherModes ==
    /\ \A mode \in Modes :
          last_saved[mode] # None =>
              StoredSettings(config_file, mode) = last_saved[mode]
    /\ latest_save # None =>
          \A mode \in Modes \ {latest_save[1].mode} :
              StoredSettings(config_file, mode) = StoredSettings(latest_save[1].file, mode)
    /\ (/\ all_configs # None
        /\ config_file.kind \in {"missing", "malformed", "not_utf8", "no_permission"})
          => all_configs[1] = Return(Dict(EmptyMap))


\* C30.  Shape test and zone lookup agree: on every coordinate the call of
\* get_source_epsg has ended on, has_easting_structure returns True if and
\* only if get_source_epsg returned a zone id (neither does when int()
\* raises), and the zone is then the one of the leading digit.
C30_ShapeTestAgreesWithZoneLookup ==
    epsg_pc \in {"returned", "raised"} =>
        /\ (has_easting_structure(easting_coordinate) = Return(TRUE))
              <=> (source_epsg.raised = "" /\ source_epsg.value # None)
        /\ has_easting_structure(easting_coordinate).raised = source_epsg.raised

\* C30 witness: 5000000.9 passes the shape test and the lookup has returned
\* zone 2176 for it.
C30_Witness ==
    /\ epsg_pc = "returned"
    /\ easting_coordinate = Fin(50000009)
    /\ has_easting_structure(easting_coordinate) = Return(TRUE)
    /\ source_epsg = Return(Some(2176))

====
